---- MODULE Spec2Model ----
(***************************************************************************)
(* Model of the recipe RAG pipeline (backend/rag_pipeline.py): ingredient  *)
(* validation, dietary filtering, cooking-time handling, recipe generation *)
(* and the process_query flow over its external services (embedding,       *)
(* vector search, MCP health check, MCP web search, chat completion).      *)
(*                                                                         *)
(* Python strings are TLA+ strings, handled character by character with    *)
(* Len, SubSeq and \o.  An Optional value is None (the empty tuple) or     *)
(* Some(v) (a one-element tuple).  Python lists are tuples.                *)
(***************************************************************************)
EXTENDS Integers, Sequences, FiniteSets, TLC

-----------------------------------------------------------------------------
(* Optional values and Python truthiness                                   *)

None == <<>>

Some(v) == <<v>>

IsNone(o) == Len(o) = 0

\* `o or d` for an Optional[str]: None and "" are falsy
StrOr(o, d) == IF IsNone(o) THEN d ELSE IF o[1] = "" THEN d ELSE o[1]

\* `o or d` for an Optional[int]: None and 0 are falsy
IntOr(o, d) == IF IsNone(o) THEN d ELSE IF o[1] = 0 THEN d ELSE o[1]

\* dict.get(key, d) for a key that is absent (None) or present (Some)
OptGet(o, d) == IF IsNone(o) THEN d ELSE o[1]

\* `o or []` for an Optional[List[str]]
ListOr(o) == IF IsNone(o) THEN <<>> ELSE o[1]

Max(a, b) == IF a >= b THEN a ELSE b

Min(a, b) == IF a <= b THEN a ELSE b

-----------------------------------------------------------------------------
(* String operations of the Python runtime used by the pipeline            *)

UpperChars == "ABCDEFGHIJKLMNOPQRSTUVWXYZ"

LowerChars == "abcdefghijklmnopqrstuvwxyz"

DigitChars == "0123456789"

CharAt(s, i) == SubSeq(s, i, i)

UpperSet == { CharAt(UpperChars, i) : i \in 1..Len(UpperChars) }

LowerSet == { CharAt(LowerChars, i) : i \in 1..Len(LowerChars) }

DigitSet == { CharAt(DigitChars, i) : i \in 1..Len(DigitChars) }

\* the lower-case letter of each upper-case letter
ToLower ==
  [c \in UpperSet |-> CharAt(LowerChars, CHOOSE i \in 1..Len(UpperChars) : CharAt(UpperChars, i) = c)]

\* the upper-case letter of each lower-case letter
ToUpper ==
  [c \in LowerSet |-> CharAt(UpperChars, CHOOSE i \in 1..Len(LowerChars) : CharAt(LowerChars, i) = c)]

\* the value of each decimal digit
DigitValue ==
  [c \in DigitSet |-> (CHOOSE i \in 1..Len(DigitChars) : CharAt(DigitChars, i) = c) - 1]

LowerChar(c) == IF c \in UpperSet THEN ToLower[c] ELSE c

UpperChar(c) == IF c \in LowerSet THEN ToUpper[c] ELSE c

IsAlpha(c) == c \in UpperSet \/ c \in LowerSet

IsDigit(c) == c \in DigitSet

IsSpace(c) == c \in {" ", "\t", "\n"}

RECURSIVE Lower(_)
\* str.lower()
Lower(s) ==
  IF Len(s) = 0 THEN "" ELSE LowerChar(CharAt(s, 1)) \o Lower(SubSeq(s, 2, Len(s)))

RECURSIVE LStrip(_)
LStrip(s) ==
  IF Len(s) = 0 THEN ""
  ELSE IF IsSpace(CharAt(s, 1)) THEN LStrip(SubSeq(s, 2, Len(s))) ELSE s

RECURSIVE RStrip(_)
RStrip(s) ==
  IF Len(s) = 0 THEN ""
  ELSE IF IsSpace(CharAt(s, Len(s))) THEN RStrip(SubSeq(s, 1, Len(s) - 1)) ELSE s

\* str.strip()
Strip(s) == LStrip(RStrip(s))

RECURSIVE RStripS(_)
\* str.rstrip('s')
RStripS(s) ==
  IF Len(s) = 0 THEN ""
  ELSE IF CharAt(s, Len(s)) = "s" THEN RStripS(SubSeq(s, 1, Len(s) - 1)) ELSE s

\* `sub in s` on strings
Contains(sub, s) ==
  \E i \in 1..(Len(s) - Len(sub) + 1) : SubSeq(s, i, i + Len(sub) - 1) = sub

\* s.startswith(p)
StartsWith(s, p) == Len(s) >= Len(p) /\ SubSeq(s, 1, Len(p)) = p

RECURSIVE Title(_, _)
\* str.title(): first letter of every run of letters upper, the rest lower
Title(s, prevAlpha) ==
  IF Len(s) = 0 THEN ""
  ELSE LET c == CharAt(s, 1)
       IN (IF prevAlpha THEN LowerChar(c) ELSE UpperChar(c))
            \o Title(SubSeq(s, 2, Len(s)), IsAlpha(c))

RECURSIVE NatToStr(_)
NatToStr(n) ==
  IF n < 10 THEN CharAt(DigitChars, n + 1)
  ELSE NatToStr(n \div 10) \o CharAt(DigitChars, (n % 10) + 1)

\* str(n) / f"{n}" for an int
IntToStr(n) == IF n < 0 THEN "-" \o NatToStr(0 - n) ELSE NatToStr(n)

RECURSIVE StrToNat(_, _)
\* int(s) for a string of digits, acc the value of the digits read so far
StrToNat(s, acc) ==
  IF Len(s) = 0 THEN acc
  ELSE StrToNat(SubSeq(s, 2, Len(s)), 10 * acc + DigitValue[CharAt(s, 1)])

\* re.findall(r"\d+", s)[0]: the first maximal run of digits, "" when none
FirstNumber(s) ==
  IF \E i \in 1..Len(s) : IsDigit(CharAt(s, i))
  THEN LET b == CHOOSE i \in 1..Len(s) :
                  /\ IsDigit(CharAt(s, i))
                  /\ \A j \in 1..(i - 1) : ~IsDigit(CharAt(s, j))
           e == CHOOSE k \in b..Len(s) :
                  /\ \A j \in b..k : IsDigit(CharAt(s, j))
                  /\ (k = Len(s) \/ ~IsDigit(CharAt(s, k + 1)))
       IN SubSeq(s, b, e)
  ELSE ""

RECURSIVE Join(_, _)
\* sep.join(list)
Join(sep, list) ==
  IF Len(list) = 0 THEN ""
  ELSE IF Len(list) = 1 THEN list[1]
  ELSE list[1] \o sep \o Join(sep, Tail(list))

\* list[:n]
Take(list, n) == SubSeq(list, 1, Min(n, Len(list)))

\* set(list)
ToSet(list) == { list[i] : i \in 1..Len(list) }

-----------------------------------------------------------------------------
(* RAGPipeline.__init__: the ingredient tables                             *)

Src_pantry_staples ==
  { "salt", "pepper", "black pepper", "white pepper", "sugar", "oil",
    "olive oil", "vegetable oil", "cooking oil", "butter", "water",
    "garlic powder", "onion powder" }

Src_vegetarian_ingredients ==
  { "tomato", "onion", "garlic", "potato", "carrot", "bell pepper",
    "capsicum", "broccoli", "spinach", "lettuce", "cucumber", "zucchini",
    "eggplant", "mushrooms", "celery", "corn", "apple", "banana", "orange",
    "lemon", "lime", "berries", "strawberries", "mango", "avocado", "rice",
    "pasta", "bread", "flour", "oats", "quinoa", "noodles", "wheat",
    "barley", "milk", "cheese", "butter", "yogurt", "cream", "mozzarella",
    "parmesan", "cheddar", "almonds", "walnuts", "peanuts", "cashews",
    "sesame seeds", "sunflower seeds", "tofu", "beans", "lentils",
    "chickpeas", "kidney beans", "black beans", "green beans", "paneer",
    "cottage cheese", "soy milk", "coconut", "coconut milk", "herbs",
    "basil", "oregano", "thyme", "rosemary", "cilantro", "parsley", "mint",
    "ginger", "turmeric", "cumin", "coriander", "chili", "chilli",
    "green chili", "red chili", "paprika" }

Src_non_vegetarian_ingredients ==
  { "chicken", "beef", "pork", "lamb", "mutton", "fish", "salmon", "tuna",
    "cod", "tilapia", "shrimp", "prawn", "crab", "lobster", "egg", "eggs",
    "bacon", "ham", "sausage", "turkey", "duck", "goose", "venison",
    "rabbit", "anchovy", "sardines", "mackerel" }

Src_vegan_restricted ==
  { "milk", "cheese", "butter", "yogurt", "cream", "mozzarella", "parmesan",
    "cheddar", "paneer", "cottage cheese", "egg", "eggs", "honey", "ghee",
    "mayonnaise" }

Src_common_ingredients == Src_vegetarian_ingredients \cup Src_non_vegetarian_ingredients

veg_proteins == { "tofu", "beans", "lentils", "chickpeas", "paneer" }

-----------------------------------------------------------------------------
(* Pure methods of RAGPipeline.  self is the record of the pipeline's own  *)
(* tables, so that each method reads the tables the object holds now.      *)

\* validate_ingredients: the test applied to one cleaned ingredient
IsValidIngredient(self, ing_clean) ==
  \/ \E common \in self.common_ingredients :
       Contains(common, ing_clean) \/ Contains(ing_clean, common)
  \/ \E common \in self.common_ingredients :
       Contains(RStripS(ing_clean), common) \/ Contains(common, RStripS(ing_clean))

validate_ingredients(self, ingredients) ==
  LET cleaned == [i \in 1..Len(ingredients) |-> Strip(Lower(ingredients[i]))]
      Keep(ing_clean) == IsValidIngredient(self, ing_clean)
  IN SelectSeq(cleaned, Keep)

\* DietExcludes that compares whole names instead of looking for a name
\* inside the ingredient
DietExcludes_whole_name(self, restrictions, ing) ==
  LET ing_lower == Lower(ing)
      Has(r) == \E i \in 1..Len(restrictions) : restrictions[i] = r
  IN \/ (Has("vegetarian") \/ Has("veg")) /\ ing_lower \in self.non_vegetarian_ingredients
     \/ (Has("non-vegetarian") \/ Has("non-veg")) /\ ing_lower \in veg_proteins
     \/ /\ Has("vegan")
        /\ ing_lower \in (self.non_vegetarian_ingredients \cup self.vegan_restricted)

\* filter_ingredients_by_diet: whether one ingredient is dropped
DietExcludes(self, restrictions, ing) ==
  LET ing_lower == Lower(ing)
      Has(r) == \E i \in 1..Len(restrictions) : restrictions[i] = r
      IsNonVeg == \E non_veg \in self.non_vegetarian_ingredients : Contains(non_veg, ing_lower)
  IN \/ (Has("vegetarian") \/ Has("veg")) /\ IsNonVeg
     \/ /\ Has("non-vegetarian") \/ Has("non-veg")
        /\ \E veg_protein \in veg_proteins : Contains(veg_protein, ing_lower)
     \/ /\ Has("vegan")
        /\ \/ IsNonVeg
           \/ \E restricted \in self.vegan_restricted : Contains(restricted, ing_lower)

filter_ingredients_by_diet(self, ingredients, dietary_restrictions) ==
  IF Len(dietary_restrictions) = 0 THEN ingredients
  ELSE LET restrictions == [i \in 1..Len(dietary_restrictions) |-> Lower(dietary_restrictions[i])]
           Keep(ing) == ~DietExcludes(self, restrictions, ing)
       IN SelectSeq(ingredients, Keep)

DefaultMinutes == 30

MinutesPerHour == 60

parse_cooking_time_minutes(time_str) ==
  IF time_str = "" THEN DefaultMinutes
  ELSE IF FirstNumber(time_str) = "" THEN DefaultMinutes
  ELSE LET minutes == StrToNat(FirstNumber(time_str), 0)
       IN IF Contains("hour", Lower(time_str)) \/ Contains("hr", Lower(time_str))
          THEN minutes * MinutesPerHour
          ELSE minutes

MinRealisticMinutes == 10

\* realistic_cooking_time with the margin of long recipes added instead of
\* subtracted
realistic_cooking_time_added(max_minutes) ==
  IF max_minutes >= 60 THEN max_minutes + 5
  ELSE IF max_minutes >= 30 THEN max_minutes - 3
  ELSE IF max_minutes >= 15 THEN max_minutes - 2
  ELSE Max(max_minutes - 1, MinRealisticMinutes)

\* realistic_cooking_time without the ten-minute minimum of line 274
realistic_cooking_time_unfloored(max_minutes) ==
  IF max_minutes >= 60 THEN max_minutes - 5
  ELSE IF max_minutes >= 30 THEN max_minutes - 3
  ELSE IF max_minutes >= 15 THEN max_minutes - 2
  ELSE max_minutes - 1

\* generate_recipe, "Determine realistic cooking time based on max_minutes".
\* The value line 266 assigns first is overwritten in every branch of the
\* chain that follows, which alone decides the result.
realistic_cooking_time(max_minutes) ==
  IF max_minutes >= 60 THEN max_minutes - 5
  ELSE IF max_minutes >= 30 THEN max_minutes - 3
  ELSE IF max_minutes >= 15 THEN max_minutes - 2
  ELSE Max(max_minutes - 1, MinRealisticMinutes)

\* f"{realistic_cooking_time} minutes"
MinutesText(n) == IntToStr(n) \o " minutes"

-----------------------------------------------------------------------------
(* generate_recipe                                                         *)

\* models.RecipeResponse
RecipeResponse(recipe_title, ingredients, instructions, cooking_time, difficulty, servings, additional_notes) ==
  [ recipe_title     |-> recipe_title,
    ingredients      |-> ingredients,
    instructions     |-> instructions,
    cooking_time     |-> cooking_time,
    difficulty       |-> difficulty,
    servings         |-> servings,
    additional_notes |-> additional_notes ]

\* a call that returned value v
Returned(v) == [ raised |-> FALSE, exc |-> "", value |-> Some(v) ]

\* a call that raised exception exc
Raised(exc) == [ raised |-> TRUE, exc |-> exc, value |-> None ]

\* The text the completion service sent, as far as the code looks at it:
\*   kind   "raise" (the call raised), "none" (message.content is None), "text"
\*   fence  "none", "json" (text starts with three backquotes and json), "bare"
\*   closed whether a fenced text ends with the three closing backquotes
\*   json   what json.loads finds between the fences: "invalid", "object", "other"
\*   obj    the object's fields as the model wrote them
\* json.loads(recipe_text) after the slices recipe_text[7:-3] / recipe_text[3:-3]:
\* an unclosed fence loses the last three characters of the JSON text
ParsedJson(completion) ==
  IF completion.fence # "none" /\ ~completion.closed THEN "invalid" ELSE completion.json

\* recipe_data["ingredients"] after the dict-to-list rewrite (lines 352-355)
FormattedIngredients(obj) ==
  IF obj.ingredients_kind = "dict"
  THEN [i \in 1..Len(obj.ingredients) |-> obj.ingredients[i][1] \o ": " \o obj.ingredients[i][2]]
  ELSE obj.ingredients

\* the except clause of generate_recipe (lines 391-400): the handler binds no
\* name for the exception and then evaluates str(e), which raises NameError
generate_recipe_except(query) == Raised("name 'e' is not defined")

\* the parameters generate_recipe extracts from the query (lines 259-274)
target_servings(query) == IntOr(query.servings, 1)

max_minutes(query) == parse_cooking_time_minutes(StrOr(query.cooking_time, "30 minutes"))

target_difficulty(query) == StrOr(query.difficulty_level, "medium")

\* the variable parts of system_prompt and user_prompt (lines 277-328)
BuildPrompt(self, query, filtered_ingredients) ==
  [ ingredients   |-> filtered_ingredients,
    pantry        |-> self.pantry_staples,
    servings      |-> target_servings(query),
    max_time      |-> realistic_cooking_time(max_minutes(query)),
    cooking_time  |-> MinutesText(realistic_cooking_time(max_minutes(query))),
    difficulty    |-> target_difficulty(query),
    dietary       |-> [i \in 1..Len(ListOr(query.dietary_restrictions)) |->
                         Lower(ListOr(query.dietary_restrictions)[i])],
    flavor        |-> StrOr(query.flavor_profile, "balanced") ]

NoPrompt == None

\* whether generate_recipe reaches the completion call (line 330)
CallsCompletion(self, query) ==
  LET valid_ingredients == validate_ingredients(self, query.ingredients)
  IN /\ Len(valid_ingredients) > 0
     /\ Len(filter_ingredients_by_diet(self, valid_ingredients,
                                       ListOr(query.dietary_restrictions))) > 0

FallbackInstructions ==
  << "Prepare all ingredients by washing and chopping as needed.",
     "Heat oil in a pan over medium heat.",
     "Add ingredients in order of cooking time needed.",
     "Cook while stirring occasionally.",
     "Season with salt and pepper to taste.",
     "Cook until done and serve hot." >>

\* EnforceConstraints without the three overwrites: the model's own values stay
EnforceConstraints_skipped(obj, query) == obj

\* lines 357-360, "Validate and enforce constraints": the three fields of
\* recipe_data are overwritten with the requested values
EnforceConstraints(obj, query) ==
  [obj EXCEPT !.servings = Some(target_servings(query)),
              !.cooking_time = Some(MinutesText(realistic_cooking_time(max_minutes(query)))),
              !.difficulty = Some(target_difficulty(query))]

\* lines 363-379: recipe_data when json.loads raised JSONDecodeError
FallbackData(query, filtered_ingredients) ==
  [ recipe_title     |-> Some("Simple " \o Title(target_difficulty(query), FALSE) \o " Recipe"),
    ingredients_kind |-> "list",
    ingredients      |-> << "Use the provided ingredients: "
                              \o Join(", ", Take(filtered_ingredients, 5)) >>,
    instructions     |-> Some(FallbackInstructions),
    cooking_time     |-> Some(MinutesText(realistic_cooking_time(max_minutes(query)))),
    difficulty       |-> Some(target_difficulty(query)),
    servings         |-> Some(target_servings(query)),
    additional_notes |-> Some("Recipe generated with fallback due to parsing issue."),
    well_typed       |-> TRUE ]

\* lines 381-389: the RecipeResponse built from recipe_data
ResponseFromData(query, filtered_ingredients, recipe_data) ==
  RecipeResponse(
    OptGet(recipe_data.recipe_title, "Generated Recipe"),
    IF recipe_data.ingredients_kind = "absent" THEN filtered_ingredients
    ELSE FormattedIngredients(recipe_data),
    OptGet(recipe_data.instructions, << "Instructions not available" >>),
    OptGet(recipe_data.cooking_time, MinutesText(realistic_cooking_time(max_minutes(query)))),
    OptGet(recipe_data.difficulty, target_difficulty(query)),
    target_servings(query),
    OptGet(recipe_data.additional_notes, "Recipe generated successfully."))

\* lines 330-389: from the completion's answer to the RecipeResponse.  An
\* exception (the call raising, content None, a JSON value that is no object,
\* a field RecipeResponse rejects) goes to the except clause.
RecipeFromCompletion(query, filtered_ingredients, completion) ==
  IF completion.kind = "raise" THEN generate_recipe_except(query)
  ELSE IF completion.kind = "none" THEN generate_recipe_except(query)
  ELSE IF ParsedJson(completion) = "other" THEN generate_recipe_except(query)
  ELSE IF ParsedJson(completion) = "invalid"
  THEN Returned(ResponseFromData(query, filtered_ingredients,
                                 FallbackData(query, filtered_ingredients)))
  ELSE IF ~completion.obj.well_typed THEN generate_recipe_except(query)
  ELSE Returned(ResponseFromData(query, filtered_ingredients,
                                 EnforceConstraints(completion.obj, query)))

generate_recipe(self, query, retrieved_chunks, web_recipes, completion) ==
  LET valid_ingredients == validate_ingredients(self, query.ingredients)
      filtered_ingredients == filter_ingredients_by_diet(self, valid_ingredients,
                                                         ListOr(query.dietary_restrictions))
      diet_info == IF Len(ListOr(query.dietary_restrictions)) > 0
                   THEN Join(", ", ListOr(query.dietary_restrictions))
                   ELSE "specified dietary"
  IN IF Len(valid_ingredients) = 0
     THEN Returned(RecipeResponse(
            "Unable to Create Recipe",
            << "Please provide valid ingredients" >>,
            << "No valid ingredients found. Try common vegetables, grains, or proteins." >>,
            StrOr(query.cooking_time, "N/A"),
            StrOr(query.difficulty_level, "N/A"),
            IntOr(query.servings, 1),
            "Provide common ingredients like chicken, rice, vegetables, etc."))
     ELSE IF Len(filtered_ingredients) = 0
     THEN Returned(RecipeResponse(
            "No Recipe Available",
            << "No ingredients available for specified diet" >>,
            << "No " \o diet_info \o " ingredients found in your list." >>,
            StrOr(query.cooking_time, "N/A"),
            StrOr(query.difficulty_level, "N/A"),
            IntOr(query.servings, 1),
            "Try adding " \o diet_info \o " ingredients to your list."))
     ELSE RecipeFromCompletion(query, filtered_ingredients, completion)

-----------------------------------------------------------------------------
(* process_query: the pure parts                                           *)

\* NormalizeServings that only fills in a missing value
NormalizeServings_absent_only(servings) == IF IsNone(servings) THEN Some(1) ELSE servings

\* lines 405-407, "Ensure minimum servings"
NormalizeServings(servings) ==
  IF IsNone(servings) THEN Some(1)
  ELSE IF servings[1] = 0 \/ servings[1] < 1 THEN Some(1)
  ELSE servings

\* NormalizeDiet that does not know the spelling "non_veg"
NormalizeDiet_no_underscore(d) ==
  LET d_lower == Strip(Lower(d))
  IN IF d_lower \in {"veg", "vegetarian"} THEN "vegetarian"
     ELSE IF d_lower \in {"non-veg", "non vegetarian", "nonvegetarian"}
     THEN "non-vegetarian"
     ELSE IF d_lower = "vegan" THEN "vegan"
     ELSE d_lower

\* lines 413-421: one dietary restriction
NormalizeDiet(d) ==
  LET d_lower == Strip(Lower(d))
  IN IF d_lower \in {"veg", "vegetarian"} THEN "vegetarian"
     ELSE IF d_lower \in {"non-veg", "non vegetarian", "nonvegetarian", "non_veg"}
     THEN "non-vegetarian"
     ELSE IF d_lower = "vegan" THEN "vegan"
     ELSE d_lower

\* lines 409-424, "Normalize dietary restrictions"
NormalizeDietaryRestrictions(dietary_restrictions) ==
  IF IsNone(dietary_restrictions) THEN Some(<<>>)
  ELSE IF Len(dietary_restrictions[1]) = 0 THEN Some(<<>>)
  ELSE Some([i \in 1..Len(dietary_restrictions[1]) |-> NormalizeDiet(dietary_restrictions[1][i])])

\* the dict process_query returns
QueryResult(recipe, confidence_score, sources_used, chunks_retrieved, web_recipes_found) ==
  [ recipe            |-> recipe,
    confidence_score  |-> confidence_score,
    sources_used      |-> sources_used,
    chunks_retrieved  |-> chunks_retrieved,
    web_recipes_found |-> web_recipes_found ]

\* a confidence score as the fraction num/den
Score(num, den) == [ num |-> num, den |-> den ]

ZeroScore == Score(0, 1)

\* lines 428-443
InvalidIngredientsResult(query) ==
  QueryResult(
    RecipeResponse("Invalid Ingredients",
                   << "Please provide common ingredients" >>,
                   << "No valid ingredients provided" >>,
                   "N/A", "N/A", query.servings[1],
                   "Try ingredients like chicken, rice, vegetables, etc."),
    ZeroScore, {}, 0, 0)

\* process_query without its except clause: the exception reaches the caller
process_query_except_reraise(query, exc) == Raised(exc)

\* the except clause of process_query (lines 499-514); exc is str(e)
process_query_except(query, exc) ==
  Returned(QueryResult(
    RecipeResponse("Processing Error",
                   IF Len(query.ingredients) = 0 THEN << "No ingredients" >> ELSE query.ingredients,
                   << "Error: " \o exc >>,
                   StrOr(query.cooking_time, "30 minutes"),
                   StrOr(query.difficulty_level, "medium"),
                   IntOr(query.servings, 1),
                   "Error occurred during processing"),
    ZeroScore, {}, 0, 0))

\* lines 476-480 in hundredths: base_confidence = min(len(chunks) * 0.15, 0.8),
\* ingredient_confidence = valid / total, web_boost = 0.1, capped at 1.0
ConfidenceScore(query, valid, retrieved_chunks, web_recipes) ==
  LET base == Min(Len(retrieved_chunks) * 15, 80)
      total == Len(query.ingredients)
      boost == IF Len(web_recipes) > 0 THEN 10 ELSE 0
      num == base * Len(valid) + boost * total
      den == 100 * total
  IN IF total = 0 THEN Score(boost, 100)
     ELSE IF num > den THEN Score(den, den) ELSE Score(num, den)

\* line 485: a chunk whose doc_id is falsy and whose metadata is None
\* makes chunk.get("metadata", {}).get(...) raise AttributeError
ChunkSourceRaises(chunk) == StrOr(chunk.doc_id, "") = "" /\ IsNone(chunk.metadata)

\* line 485: chunk.get("doc_id") or chunk.get("metadata", {}).get("doc_id", "unknown")
ChunkSource(chunk) ==
  IF StrOr(chunk.doc_id, "") # "" THEN chunk.doc_id[1]
  ELSE IF IsNone(chunk.metadata[1]) THEN "unknown"
  ELSE chunk.metadata[1][1]

\* line 489: f"web:{r.get('source','unknown')}"
WebSource(r) == "web:" \o (IF IsNone(r.source) THEN "unknown" ELSE r.source[1])

\* lines 482-489
SourcesUsed(retrieved_chunks, web_recipes) ==
  { ChunkSource(retrieved_chunks[i]) : i \in 1..Len(retrieved_chunks) }
    \cup { WebSource(Take(web_recipes, 2)[i]) : i \in 1..Len(Take(web_recipes, 2)) }

\* lines 474-497: what process_query does with generate_recipe's outcome.
\* web_recipes is None when the web search answered "recipes": null
FinishQuery(query, valid, retrieved_chunks, web_recipes, gen) ==
  IF gen.raised THEN process_query_except(query, gen.exc)
  ELSE IF \E i \in 1..Len(retrieved_chunks) : ChunkSourceRaises(retrieved_chunks[i])
  THEN process_query_except(query, "'NoneType' object has no attribute 'get'")
  ELSE IF IsNone(web_recipes)
  THEN process_query_except(query, "object of type 'NoneType' has no len()")
  ELSE Returned(QueryResult(
         gen.value[1],
         ConfidenceScore(query, valid, retrieved_chunks, web_recipes[1]),
         SourcesUsed(retrieved_chunks, web_recipes[1]),
         Len(retrieved_chunks),
         Len(web_recipes[1])))

-----------------------------------------------------------------------------
(* Bounds and the inputs the model draws from                              *)

\* cooking times of 0..MaxMinutes minutes are asked for
MaxMinutes == 61

\* largest number of chunks the vector search returns (top_k is 5)
MaxChunks == 2

\* largest number of recipes the web search returns
MaxWeb == 2

\* largest number of servings asked for
MaxServings == 2

\* models.RecipeQuery
RecipeQuery(ingredients, dietary_restrictions, cooking_time, difficulty_level, servings) ==
  [ ingredients          |-> ingredients,
    dietary_restrictions |-> dietary_restrictions,
    cooking_time         |-> cooking_time,
    difficulty_level     |-> difficulty_level,
    cuisine_type         |-> None,
    servings             |-> servings,
    flavor_profile       |-> None ]

IngredientLists ==
  { << "chicken breast", "rice" >>,
    << "Tofu ", "CHEESE", "eggs" >>,
    << "honey glazed carrots", "qwxz", "lentils" >>,
    << "bacon" >>,
    << "xyz", "qwxz" >>,
    << >> }

DietLists ==
  { None, Some(<< >>), Some(<< "veg" >>), Some(<< " Vegetarian" >>), Some(<< "vegan" >>),
    Some(<< "non-veg" >>), Some(<< "keto", "VEGAN" >>),
    Some(<< "Non Vegetarian", "nonvegetarian", "non_veg", " Gluten-Free " >>) }

ServingsValues == { None, Some(0), Some(-1) } \cup { Some(n) : n \in 1..MaxServings }

\* queries that vary the ingredients and the diet
BaseQueries ==
  { RecipeQuery(i, d, Some("under 20 mins"), IF IsNone(d) THEN None ELSE Some("easy"),
                Some(MaxServings)) :
      i \in IngredientLists, d \in DietLists }

\* queries that vary the servings, with ingredients that take each path
ServingsQueries ==
  { RecipeQuery(i, Some(<< "vegan" >>), None, Some(""), s) :
      i \in { << "Chicken", "rice" >>, << "xyz" >>, << "bacon" >> }, s \in ServingsValues }

CookingTimes ==
  { Some(MinutesText(n)) : n \in 0..MaxMinutes }
    \cup { Some(""), Some("quick"), Some("2 hours"), Some("1 hr 30 min"), Some("Under 5 Mins") }

\* queries that vary the cooking time
TimedQueries ==
  { RecipeQuery(<< "potato", "onion" >>, None, t, Some("hard"), Some(MaxServings)) :
      t \in CookingTimes }

Queries == BaseQueries \cup ServingsQueries \cup TimedQueries

\* what QdrantVectorStore.search_similar puts in a hit
Chunk(content, doc_id, metadata) ==
  [ content |-> content, doc_id |-> doc_id, metadata |-> metadata ]

ChunkPattern(i) ==
  IF i % 3 = 1 THEN Chunk("Recipe: Fried Rice", Some("r1"), Some(Some("r1")))
  ELSE IF i % 3 = 2 THEN Chunk("Ingredients: rice, egg", None, Some(Some("r2")))
  ELSE Chunk("Stir and serve.", Some(""), Some(None))

\* the hits the vector search may return; the last one lacks doc_id and metadata
ChunkLists ==
  { [i \in 1..k |-> ChunkPattern(i)] : k \in 0..MaxChunks }
    \cup { << Chunk("Boil water.", None, None) >> }

WebRecipe(title, source) == [ title |-> title, summary |-> "", source |-> source ]

WebPattern(i) ==
  IF i % 2 = 1 THEN WebRecipe("Chicken Curry", Some("TheMealDB"))
  ELSE WebRecipe("Veggie Bowl", None)

\* what MCPClient.search_web_recipes may return on status 200: a list, or
\* None when the body holds "recipes": null
WebAnswers == { Some([i \in 1..k |-> WebPattern(i)]) : k \in 0..MaxWeb } \cup { None }

Completion(kind, fence, closed, json, obj) ==
  [ kind |-> kind, fence |-> fence, closed |-> closed, json |-> json, obj |-> obj ]

RecipeObject(recipe_title, ingredients_kind, ingredients, instructions, cooking_time, difficulty, servings, additional_notes, well_typed) ==
  [ recipe_title     |-> recipe_title,
    ingredients_kind |-> ingredients_kind,
    ingredients      |-> ingredients,
    instructions     |-> instructions,
    cooking_time     |-> cooking_time,
    difficulty       |-> difficulty,
    servings         |-> servings,
    additional_notes |-> additional_notes,
    well_typed       |-> well_typed ]

\* the model obeys the prompt
ObjObedient(prompt) ==
  RecipeObject(Some("Skillet Supper"), "list", << "200g of everything" >>,
               Some(<< "Chop.", "Cook." >>), Some(prompt.cooking_time),
               Some(prompt.difficulty), Some(prompt.servings), Some("Enjoy."), TRUE)

\* the model writes its own servings, time and difficulty
ObjWilful ==
  RecipeObject(Some("Feast"), "dict", << << "rice", "2 cups" >> >>,
               Some(<< "Cook for hours." >>), Some("3 hours"), Some("expert"), Some(12),
               None, TRUE)

\* the model leaves out every field
ObjEmpty ==
  RecipeObject(None, "absent", << >>, None, None, None, None, None, TRUE)

\* a field has a type RecipeResponse rejects (recipe_title: null)
ObjIllTyped ==
  RecipeObject(None, "list", << "rice" >>, None, Some("5 minutes"), None, Some(3), None, FALSE)

\* the answers of the completion service to a prompt
Completions(prompt) ==
  { Completion("raise", "none", TRUE, "invalid", ObjEmpty),
    Completion("none", "none", TRUE, "invalid", ObjEmpty),
    Completion("text", "none", TRUE, "invalid", ObjEmpty),
    Completion("text", "none", TRUE, "other", ObjEmpty),
    Completion("text", "json", TRUE, "object", ObjObedient(prompt)),
    Completion("text", "json", FALSE, "object", ObjObedient(prompt)),
    Completion("text", "bare", TRUE, "object", ObjWilful),
    Completion("text", "none", TRUE, "object", ObjEmpty),
    Completion("text", "none", TRUE, "object", ObjIllTyped) }

-----------------------------------------------------------------------------
(* State                                                                   *)

VARIABLES
  pantry_staples,              \* self.pantry_staples
  vegetarian_ingredients,      \* self.vegetarian_ingredients
  non_vegetarian_ingredients,  \* self.non_vegetarian_ingredients
  vegan_restricted,            \* self.vegan_restricted
  common_ingredients,          \* self.common_ingredients
  pc,                 \* where process_query stands: "idle", "retrieve", "health",
                      \* "web", "generate", "done"
  arg,                \* the query as the caller passed it, None when idle
  query,              \* the query object as process_query has changed it
  valid_ingredients,  \* local of process_query
  retrieved_chunks,   \* local of process_query
  healthy,            \* what health_check returned in this call, None before it ran
  web_recipes,        \* local of process_query: Some(list), or None for a null answer
  calls,              \* the external calls of this query, in the order made
  prompt,             \* the prompt sent to the completion service, None if none was sent
  completion,         \* the completion service's answer, None if it was not called
  gen,                \* the outcome of generate_recipe, None if it was not called
  result,             \* the outcome of process_query, None until it returns
  cli_stage,          \* where RecipeGenerator.search_recipes stands: "idle", "parsed",
                      \* "queried", "read"
  cli_conditions,     \* the conditions argument of search_recipes, None when absent
  parsed_conditions,  \* what parse_conditions returned, None before it ran
  cli_query,          \* the RecipeQuery search_recipes has built, None before
  read_minutes,       \* max_minutes of generate_recipe for cli_query, None before
  server_request,     \* the request the recipe server is answering, None when idle
  api_search,         \* the search the handler made for it, None if it made none
  server_response,    \* the server's answer, None when idle
  main_pc,            \* where main stands: "start", "ingest", "ingesting", "dispatch",
                      \* "interactive", "exit"
  main_args,          \* the parsed command line, None before main starts
  main_events         \* what main has done so far, in order

tables == << pantry_staples, vegetarian_ingredients, non_vegetarian_ingredients,
             vegan_restricted, common_ingredients >>

locals == << valid_ingredients, retrieved_chunks, healthy, web_recipes >>

\* the state of RecipeGenerator.search_recipes (main.py)
conditions_vars == << cli_stage, cli_conditions, parsed_conditions, cli_query, read_minutes >>

\* the state of the recipe server (mcp_server.py)
server_vars == << server_request, api_search, server_response >>

\* the state of the command-line main (main.py)
main_vars == << main_pc, main_args, main_events >>

\* the state of the pipeline object and of its process_query
pipeline_vars == << pantry_staples, vegetarian_ingredients, non_vegetarian_ingredients,
                    vegan_restricted, common_ingredients, pc, arg, query,
                    valid_ingredients, retrieved_chunks, healthy, web_recipes, calls,
                    prompt, completion, gen, result >>

vars == << pantry_staples, vegetarian_ingredients, non_vegetarian_ingredients,
           vegan_restricted, common_ingredients, pc, arg, query, valid_ingredients,
           retrieved_chunks, healthy, web_recipes, calls, prompt, completion, gen,
           result, cli_stage, cli_conditions, parsed_conditions, cli_query,
           read_minutes, server_request, api_search, server_response, main_pc,
           main_args, main_events >>

\* the pipeline object as the methods see it
Self ==
  [ pantry_staples             |-> pantry_staples,
    vegetarian_ingredients     |-> vegetarian_ingredients,
    non_vegetarian_ingredients |-> non_vegetarian_ingredients,
    vegan_restricted           |-> vegan_restricted,
    common_ingredients         |-> common_ingredients ]

\* the pipeline object right after __init__
Src_self ==
  [ pantry_staples             |-> Src_pantry_staples,
    vegetarian_ingredients     |-> Src_vegetarian_ingredients,
    non_vegetarian_ingredients |-> Src_non_vegetarian_ingredients,
    vegan_restricted           |-> Src_vegan_restricted,
    common_ingredients         |-> Src_common_ingredients ]

Init ==
  /\ pantry_staples = Src_pantry_staples
  /\ vegetarian_ingredients = Src_vegetarian_ingredients
  /\ non_vegetarian_ingredients = Src_non_vegetarian_ingredients
  /\ vegan_restricted = Src_vegan_restricted
  /\ common_ingredients = Src_common_ingredients
  /\ pc = "idle"
  /\ arg = None
  /\ query = None
  /\ valid_ingredients = << >>
  /\ retrieved_chunks = << >>
  /\ healthy = None
  /\ web_recipes = Some(<< >>)
  /\ calls = << >>
  /\ prompt = NoPrompt
  /\ completion = None
  /\ gen = None
  /\ result = None
  /\ cli_stage = "idle"
  /\ cli_conditions = None
  /\ parsed_conditions = None
  /\ cli_query = None
  /\ read_minutes = None
  /\ server_request = None
  /\ api_search = None
  /\ server_response = None
  /\ main_pc = "start"
  /\ main_args = None
  /\ main_events = << >>

-----------------------------------------------------------------------------
(* process_query, one action per external call                             *)

\* TablesAfterQuery that remembers the ingredients it has accepted
TablesAfterQuery_learns(self, valid) ==
  [self EXCEPT !.common_ingredients = @ \cup ToSet(valid)]

\* the pipeline's tables after process_query has worked on a query with the
\* given valid ingredients: process_query and generate_recipe assign no
\* attribute of self
TablesAfterQuery(self, valid) == self

\* the tables become t
SetTables(t) ==
  /\ pantry_staples' = t.pantry_staples
  /\ vegetarian_ingredients' = t.vegetarian_ingredients
  /\ non_vegetarian_ingredients' = t.non_vegetarian_ingredients
  /\ vegan_restricted' = t.vegan_restricted
  /\ common_ingredients' = t.common_ingredients

\* ReturnsEarly with the check left out
ReturnsEarly_never(valid) == FALSE

\* line 428, `if not valid_ingredients`: process_query returns at once
ReturnsEarly(valid) == Len(valid) = 0

\* lines 403-443: normalise the query, validate the ingredients, and return
\* at once when none is valid
ProcessQueryBegin(q) ==
  /\ pc = "idle"
  /\ LET normalized == [q EXCEPT !.servings = NormalizeServings(q.servings),
                                 !.dietary_restrictions =
                                    NormalizeDietaryRestrictions(q.dietary_restrictions)]
         valid == validate_ingredients(Self, normalized.ingredients)
     IN /\ arg' = Some(q)
        /\ query' = Some(normalized)
        /\ valid_ingredients' = valid
        /\ IF ReturnsEarly(valid)
           THEN /\ result' = Some(Returned(InvalidIngredientsResult(normalized)))
                /\ pc' = "done"
           ELSE /\ result' = None
                /\ pc' = "retrieve"
  /\ SetTables(TablesAfterQuery(Self, validate_ingredients(Self, q.ingredients)))
  /\ UNCHANGED << retrieved_chunks, healthy, web_recipes, calls, prompt, completion, gen >>
  /\ UNCHANGED << conditions_vars, server_vars, main_vars >>

\* EmbeddingCalls that tries the hosted embedding a second time before falling
\* back to the local model
EmbeddingCalls_retry(embedded) ==
  IF embedded = "azure" THEN << "embedding" >>
  ELSE << "embedding", "embedding", "local_embedding" >>

\* get_azure_embedding (lines 117-125): the hosted embedding, then the local
\* model when that raises.  embedded says how the embedding was obtained.
EmbeddingCalls(embedded) ==
  IF embedded = "azure" THEN << "embedding" >> ELSE << "embedding", "local_embedding" >>

\* retrieve_relevant_chunks (lines 189-195) with QdrantVectorStore.search_similar
\* (qdrant_store.py 77-98): a failure of either yields no chunks
RetrieveChunks(embedded, found) ==
  /\ pc = "retrieve"
  /\ IF embedded = "failed"
     THEN /\ calls' = calls \o EmbeddingCalls(embedded)
          /\ retrieved_chunks' = << >>
     ELSE /\ calls' = calls \o EmbeddingCalls(embedded) \o << "vector_search" >>
          /\ retrieved_chunks' = IF IsNone(found) THEN << >> ELSE found[1]
  /\ pc' = "health"
  /\ UNCHANGED << tables, arg, query, valid_ingredients, healthy, web_recipes, prompt,
                  completion, gen, result >>
  /\ UNCHANGED << conditions_vars, server_vars, main_vars >>

\* MCPClient.health_check (mcp_client.py 102-108): True on status 200, False
\* on any other status and on any exception
health_check(response) == response = "200"

\* line 460
HealthCheck(response) ==
  /\ pc = "health"
  /\ calls' = calls \o << "health_check" >>
  /\ healthy' = Some(health_check(response))
  /\ pc' = IF health_check(response) THEN "web" ELSE "generate"
  /\ UNCHANGED << tables, arg, query, valid_ingredients, retrieved_chunks, web_recipes,
                  prompt, completion, gen, result >>
  /\ UNCHANGED << conditions_vars, server_vars, main_vars >>

\* MCPClient.search_web_recipes (mcp_client.py 73-100): the recipes of a
\* status-200 answer, [] on any other status and on any exception
search_web_recipes(response, answer) == IF response = "200" THEN answer ELSE Some(<< >>)

\* lines 461-469
WebSearch(response, answer) ==
  /\ pc = "web"
  /\ calls' = calls \o << "web_search" >>
  /\ web_recipes' = search_web_recipes(response, answer)
  /\ pc' = "generate"
  /\ UNCHANGED << tables, arg, query, valid_ingredients, retrieved_chunks, healthy,
                  prompt, completion, gen, result >>
  /\ UNCHANGED << conditions_vars, server_vars, main_vars >>

\* lines 474-514: generate_recipe with its completion call, then the score,
\* the sources and the returned dict, or the except clause
GenerateAndReturn ==
  /\ pc = "generate"
  /\ LET q == query[1]
         called == CallsCompletion(Self, q)
         sent == BuildPrompt(Self, q,
                   filter_ingredients_by_diet(Self, validate_ingredients(Self, q.ingredients),
                                              ListOr(q.dietary_restrictions)))
     IN \E c \in Completions(sent) :
          LET outcome == generate_recipe(Self, q, retrieved_chunks,
                                         ListOr(web_recipes), c)
          IN /\ prompt' = IF called THEN Some(sent) ELSE NoPrompt
             /\ completion' = IF called THEN Some(c) ELSE None
             /\ calls' = IF called THEN calls \o << "completion" >> ELSE calls
             /\ gen' = Some(outcome)
             /\ result' = Some(FinishQuery(q, valid_ingredients, retrieved_chunks,
                                           web_recipes, outcome))
  /\ pc' = "done"
  /\ SetTables(TablesAfterQuery(Self, valid_ingredients))
  /\ UNCHANGED << arg, query, valid_ingredients, retrieved_chunks, healthy, web_recipes >>
  /\ UNCHANGED << conditions_vars, server_vars, main_vars >>

\* process_query has returned: its locals are gone, the pipeline keeps nothing
Return ==
  /\ pc = "done"
  /\ pc' = "idle"
  /\ arg' = None
  /\ query' = None
  /\ valid_ingredients' = << >>
  /\ retrieved_chunks' = << >>
  /\ healthy' = None
  /\ web_recipes' = Some(<< >>)
  /\ calls' = << >>
  /\ prompt' = NoPrompt
  /\ completion' = None
  /\ gen' = None
  /\ result' = None
  /\ UNCHANGED tables
  /\ UNCHANGED << conditions_vars, server_vars, main_vars >>

HttpResponses == { "200", "503", "error" }

\* how the embedding was obtained and what the vector search then did:
\* Some(hits), or None when the search raised
RetrievalOutcomes ==
  { << "azure", Some(chunks) >> : chunks \in ChunkLists }
    \cup { << "azure", None >>,
           << "local", Some([i \in 1..1 |-> ChunkPattern(i)]) >>,
           << "local", None >>,
           << "failed", None >> }

Next ==
  \/ \E q \in Queries : ProcessQueryBegin(q)
  \/ \E outcome \in RetrievalOutcomes : RetrieveChunks(outcome[1], outcome[2])
  \/ \E response \in HttpResponses : HealthCheck(response)
  \/ \E response \in HttpResponses, answer \in WebAnswers : WebSearch(response, answer)
  \/ GenerateAndReturn
  \/ Return

Spec == Init /\ [][Next]_vars

-----------------------------------------------------------------------------
(* main.py: RecipeGenerator.parse_conditions and search_recipes            *)

\* One element of a regular expression: a literal with its alternatives in
\* the order the regex tries them, a run of white space of at least `least`
\* characters, or the captured run of digits.
Lit(alts) == [ kind |-> "lit", alts |-> alts, least |-> 0 ]

Ws(least) == [ kind |-> "ws", alts |-> << >>, least |-> least ]

Digits == [ kind |-> "digits", alts |-> << >>, least |-> 1 ]

\* s[i:].startswith(p), positions counted from 1
StartsWithAt(s, i, p) == i + Len(p) - 1 <= Len(s) /\ SubSeq(s, i, i + Len(p) - 1) = p

RECURSIVE SpacesEnd(_, _)
\* where the longest run of white space that starts at i ends (\s*, greedy)
SpacesEnd(s, i) ==
  IF i <= Len(s) /\ IsSpace(CharAt(s, i)) THEN SpacesEnd(s, i + 1) ELSE i

RECURSIVE DigitsEnd(_, _)
\* where the longest run of digits that starts at i ends (\d+, greedy)
DigitsEnd(s, i) ==
  IF i <= Len(s) /\ IsDigit(CharAt(s, i)) THEN DigitsEnd(s, i + 1) ELSE i

RECURSIVE MatchAt(_, _, _)
\* re.match of the elements at position i of s: None when they do not match,
\* else Some(group 1).  In these patterns a run is always followed by an
\* element that cannot start inside the run, so the greedy run is the only
\* candidate; the alternatives of a literal are tried in order.
MatchAt(tokens, s, i) ==
  IF Len(tokens) = 0 THEN Some("")
  ELSE LET t == Head(tokens)
           rest == Tail(tokens)
       IN IF t.kind = "lit"
          THEN LET fits(k) == /\ StartsWithAt(s, i, t.alts[k])
                              /\ ~IsNone(MatchAt(rest, s, i + Len(t.alts[k])))
               IN IF \E k \in 1..Len(t.alts) : fits(k)
                  THEN LET k == CHOOSE k \in 1..Len(t.alts) :
                                  fits(k) /\ \A j \in 1..(k - 1) : ~fits(j)
                       IN MatchAt(rest, s, i + Len(t.alts[k]))
                  ELSE None
          ELSE IF t.kind = "ws"
          THEN IF SpacesEnd(s, i) - i < t.least THEN None
               ELSE MatchAt(rest, s, SpacesEnd(s, i))
          ELSE IF DigitsEnd(s, i) = i \/ IsNone(MatchAt(rest, s, DigitsEnd(s, i)))
               THEN None
               ELSE Some(SubSeq(s, i, DigitsEnd(s, i) - 1))

\* re.search(pattern, s): the leftmost match, None when there is none
Search(tokens, s) ==
  IF \E i \in 1..Len(s) : ~IsNone(MatchAt(tokens, s, i))
  THEN MatchAt(tokens, s, CHOOSE i \in 1..Len(s) :
                            /\ ~IsNone(MatchAt(tokens, s, i))
                            /\ \A j \in 1..(i - 1) : IsNone(MatchAt(tokens, s, j)))
  ELSE None

\* a pattern of the source: its text, which lines 82 and 98 look into, and
\* its elements
Pattern(source, tokens) == [ source |-> source, tokens |-> tokens ]

\* (?:mins?|minutes?)
MinuteUnit == Lit(<< "mins", "min", "minutes", "minute" >>)

\* (?:hrs?|hours?)
HourUnit == Lit(<< "hrs", "hr", "hours", "hour" >>)

\* lines 56-61
serving_patterns ==
  << Pattern("serves?\\s+(\\d+)",
             << Lit(<< "serves", "serve" >>), Ws(1), Digits >>),
     Pattern("for\\s+(\\d+)\\s+(?:people|persons?)",
             << Lit(<< "for" >>), Ws(1), Digits, Ws(1),
                Lit(<< "people", "persons", "person" >>) >>),
     Pattern("(\\d+)\\s+(?:servings?|people|persons?)",
             << Digits, Ws(1),
                Lit(<< "servings", "serving", "people", "persons", "person" >>) >>),
     Pattern("feeds?\\s+(\\d+)",
             << Lit(<< "feeds", "feed" >>), Ws(1), Digits >>) >>

\* lines 70-76
time_patterns ==
  << Pattern("under\\s+(\\d+)\\s*(?:mins?|minutes?)",
             << Lit(<< "under" >>), Ws(1), Digits, Ws(0), MinuteUnit >>),
     Pattern("less\\s+than\\s+(\\d+)\\s*(?:mins?|minutes?)",
             << Lit(<< "less" >>), Ws(1), Lit(<< "than" >>), Ws(1), Digits, Ws(0),
                MinuteUnit >>),
     Pattern("within\\s+(\\d+)\\s*(?:mins?|minutes?)",
             << Lit(<< "within" >>), Ws(1), Digits, Ws(0), MinuteUnit >>),
     Pattern("in\\s+(\\d+)\\s*(?:mins?|minutes?)",
             << Lit(<< "in" >>), Ws(1), Digits, Ws(0), MinuteUnit >>),
     Pattern("(\\d+)\\s*(?:mins?|minutes?)",
             << Digits, Ws(0), MinuteUnit >>) >>

\* lines 89-92
hour_patterns ==
  << Pattern("under\\s+(\\d+)\\s*(?:hrs?|hours?)",
             << Lit(<< "under" >>), Ws(1), Digits, Ws(0), HourUnit >>),
     Pattern("(\\d+)\\s*(?:hrs?|hours?)",
             << Digits, Ws(0), HourUnit >>) >>

\* the loops of lines 63-67, 78-86 and 94-102: the index of the first pattern
\* that is found in s, 0 when none is
FirstMatch(patterns, s) ==
  IF \E k \in 1..Len(patterns) : ~IsNone(Search(patterns[k].tokens, s))
  THEN CHOOSE k \in 1..Len(patterns) :
         /\ ~IsNone(Search(patterns[k].tokens, s))
         /\ \A j \in 1..(k - 1) : IsNone(Search(patterns[j].tokens, s))
  ELSE 0

\* int(match.group(1)) for the pattern that matched
MatchedNumber(pattern, s) == StrToNat(Search(pattern.tokens, s)[1], 0)

\* lines 63-67
ParsedServings(conditions_lower) ==
  LET k == FirstMatch(serving_patterns, conditions_lower)
  IN IF k = 0 THEN 1 ELSE MatchedNumber(serving_patterns[k], conditions_lower)

\* line 82: the test is made on the text of the pattern
IsUpperBound(pattern) ==
  \/ Contains("under", pattern.source)
  \/ Contains("less than", pattern.source)
  \/ Contains("within", pattern.source)

\* lines 81-85
CookingTimeFromMinutes(pattern, minutes) ==
  IF IsUpperBound(pattern) THEN "under " \o NatToStr(minutes) \o " minutes"
  ELSE NatToStr(minutes) \o " minutes"

\* CookingTimeFromHours that leaves the hours unconverted
CookingTimeFromHours_unconverted(pattern, hours) ==
  IF Contains("under", pattern.source) THEN "under " \o NatToStr(hours) \o " minutes"
  ELSE NatToStr(hours) \o " minutes"

\* lines 97-101
CookingTimeFromHours(pattern, hours) ==
  IF Contains("under", pattern.source) THEN "under " \o NatToStr(hours * 60) \o " minutes"
  ELSE NatToStr(hours * 60) \o " minutes"

\* lines 78-102: the minutes loop, then the hours loop, which overrides it
ParsedCookingTime(conditions_lower) ==
  LET t == FirstMatch(time_patterns, conditions_lower)
      h == FirstMatch(hour_patterns, conditions_lower)
  IN IF h > 0
     THEN Some(CookingTimeFromHours(hour_patterns[h],
                                    MatchedNumber(hour_patterns[h], conditions_lower)))
     ELSE IF t > 0
     THEN Some(CookingTimeFromMinutes(time_patterns[t],
                                      MatchedNumber(time_patterns[t], conditions_lower)))
     ELSE None

\* any(keyword in s for keyword in keywords)
AnyKeyword(keywords, s) == \E k \in 1..Len(keywords) : Contains(keywords[k], s)

\* a dict of keyword lists, as the pairs of its items() in insertion order
Entry(key, keywords) == [ key |-> key, keywords |-> keywords ]

\* the keys, in order, of the entries one of whose keywords occurs in s
MatchingKeys(mapping, s) ==
  LET hits == SelectSeq(mapping, LAMBDA e : AnyKeyword(e.keywords, s))
  IN [i \in 1..Len(hits) |-> hits[i].key]

\* lines 105-110
diet_mapping ==
  << Entry("vegetarian", << "veg", "vegetarian" >>),
     Entry("non-vegetarian", << "non-veg", "non veg", "nonveg", "non vegetarian",
                                "nonvegetarian", "meat" >>),
     Entry("vegan", << "vegan" >>),
     Entry("gluten-free", << "gluten free", "gluten-free", "glutenfree" >>) >>

\* ParsedDifficulty that takes a text without a difficulty word for easy
ParsedDifficulty_easy_default(conditions_lower) ==
  IF AnyKeyword(<< "hard", "difficult", "complex", "advanced" >>, conditions_lower)
  THEN "hard"
  ELSE IF AnyKeyword(<< "medium", "moderate", "intermediate" >>, conditions_lower)
  THEN "medium"
  ELSE "easy"

\* lines 52 and 117-122
ParsedDifficulty(conditions_lower) ==
  IF AnyKeyword(<< "easy", "simple", "beginner" >>, conditions_lower) THEN "easy"
  ELSE IF AnyKeyword(<< "hard", "difficult", "complex", "advanced" >>, conditions_lower)
  THEN "hard"
  ELSE IF AnyKeyword(<< "medium", "moderate", "intermediate" >>, conditions_lower)
  THEN "medium"
  ELSE "medium"

\* lines 125-132
flavor_keywords ==
  << Entry("spicy", << "spicy", "hot", "chili", "chilli", "pepper" >>),
     Entry("sweet", << "sweet", "sugary" >>),
     Entry("sour", << "sour", "tangy", "acidic" >>),
     Entry("mild", << "mild", "gentle" >>),
     Entry("savory", << "savory", "savoury", "umami" >>),
     Entry("aromatic", << "aromatic", "fragrant" >>) >>

\* the dict parse_conditions returns
Conditions(servings, cooking_time, dietary_restrictions, difficulty_level, flavor_profile) ==
  [ servings             |-> servings,
    cooking_time         |-> cooking_time,
    dietary_restrictions |-> dietary_restrictions,
    difficulty_level     |-> difficulty_level,
    flavor_profile       |-> flavor_profile ]

\* lines 38-44 and 48-53
DefaultConditions == Conditions(1, None, << >>, "medium", "")

\* RecipeGenerator.parse_conditions (lines 35-147); conditions is None or
\* Some(text)
parse_conditions(conditions) ==
  IF IsNone(conditions) THEN DefaultConditions
  ELSE IF conditions[1] = "" THEN DefaultConditions
  ELSE LET conditions_lower == Strip(Lower(conditions[1]))
       IN Conditions(ParsedServings(conditions_lower),
                     ParsedCookingTime(conditions_lower),
                     MatchingKeys(diet_mapping, conditions_lower),
                     ParsedDifficulty(conditions_lower),
                     Join(" ", MatchingKeys(flavor_keywords, conditions_lower)))

\* RecipeGenerator.search_recipes, lines 156-164: the query object
QueryFromConditions(ingredients, parsed) ==
  [ RecipeQuery(ingredients,
                IF Len(parsed.dietary_restrictions) > 0
                THEN Some(parsed.dietary_restrictions) ELSE None,
                parsed.cooking_time,
                Some(parsed.difficulty_level),
                Some(parsed.servings))
    EXCEPT !.flavor_profile = IF parsed.flavor_profile = "" THEN None
                              ELSE Some(parsed.flavor_profile) ]

\* conditions name times of 0..MaxConditionTime minutes or hours
MaxConditionTime == 12

\* the phrasings of a time of n units
TimePhrases(n) ==
  { "under " \o NatToStr(n) \o " minutes",
    "less than " \o NatToStr(n) \o " minutes",
    "within " \o NatToStr(n) \o " minutes",
    "in " \o NatToStr(n) \o " minutes",
    NatToStr(n) \o " minutes",
    "under " \o NatToStr(n) \o " mins",
    NatToStr(n) \o " hours",
    "Less  Than " \o NatToStr(n) \o "min easy" }

\* conditions as the user types them
ConditionTexts ==
  UNION { TimePhrases(n) : n \in 0..MaxConditionTime }
    \cup { "", "   ", "veg", "vegetarian", "non-veg", "vegan", "Vegan easy",
           "serves 3 vegetarian under 25 mins medium spicy", "serves 4 veg under 30 mins",
           "for 6 people", "3 servings", "feeds 2", "serve 10", "for 2 persons hot",
           "quick dinner", "tasty", "4 eggs", "in 15", "serves many", "15 m",
           "gluten free hard", "meat sweet and sour", "nonveg", "UNDER 2 HRS",
           "1 hour 30 minutes", "under 90min", "2hrs", "within 1 hour",
           "non vegetarian for 4 people", "mild and fragrant" }

ConditionInputs == { None } \cup { Some(c) : c \in ConditionTexts }

\* ingredient lists handed to search_recipes
CliIngredients == { << "rice", "egg" >>, << "chicken" >> }

\* cooking times of a RecipeQuery that no parse_conditions has produced
GivenCookingTimes == { None, Some(""), Some("quick"), Some("about an hour"), Some("half a day") }

\* line 153
ParseConditions(c) ==
  /\ cli_stage = "idle"
  /\ cli_conditions' = c
  /\ parsed_conditions' = Some(parse_conditions(c))
  /\ cli_stage' = "parsed"
  /\ UNCHANGED << cli_query, read_minutes >>
  /\ UNCHANGED << pipeline_vars, server_vars, main_vars >>

\* lines 156-164
CreateQuery(ingredients) ==
  /\ cli_stage = "parsed"
  /\ cli_query' = Some(QueryFromConditions(ingredients, parsed_conditions[1]))
  /\ cli_stage' = "queried"
  /\ UNCHANGED << cli_conditions, parsed_conditions, read_minutes >>
  /\ UNCHANGED << pipeline_vars, server_vars, main_vars >>

\* a caller of process_query that built the RecipeQuery itself
QueryGiven(ingredients, cooking_time) ==
  /\ cli_stage = "idle"
  /\ cli_query' = Some(RecipeQuery(ingredients, None, cooking_time, None, None))
  /\ cli_stage' = "queried"
  /\ UNCHANGED << cli_conditions, parsed_conditions, read_minutes >>
  /\ UNCHANGED << pipeline_vars, server_vars, main_vars >>

\* line 167 of main.py, down to line 260 of rag_pipeline.py: generate_recipe
\* reads the query's cooking time back
ReadCookingTime ==
  /\ cli_stage = "queried"
  /\ read_minutes' = Some(max_minutes(cli_query[1]))
  /\ cli_stage' = "read"
  /\ UNCHANGED << cli_conditions, parsed_conditions, cli_query >>
  /\ UNCHANGED << pipeline_vars, server_vars, main_vars >>

\* search_recipes has returned
SearchRecipesReturn ==
  /\ cli_stage = "read"
  /\ cli_stage' = "idle"
  /\ cli_conditions' = None
  /\ parsed_conditions' = None
  /\ cli_query' = None
  /\ read_minutes' = None
  /\ UNCHANGED << pipeline_vars, server_vars, main_vars >>

NextConditions ==
  \/ \E c \in ConditionInputs : ParseConditions(c)
  \/ \E ingredients \in CliIngredients : CreateQuery(ingredients)
  \/ \E ingredients \in CliIngredients, t \in GivenCookingTimes : QueryGiven(ingredients, t)
  \/ ReadCookingTime
  \/ SearchRecipesReturn

SpecConditions == Init /\ [][NextConditions]_vars

-----------------------------------------------------------------------------
(* mcp_server.py: MCPServer.search_recipe_apis and the POST endpoints      *)

\* a recipe as the search functions build it
Recipe(id, title, ingredients, totalTime, source) ==
  [ id |-> id, title |-> title, ingredients |-> ingredients, totalTime |-> totalTime,
    source |-> source ]

\* MCPServer.__init__, lines 42-69
mock_recipes ==
  << Recipe("mock_1", "Simple Chicken Stir Fry",
            << "2 chicken breasts", "2 tbsp soy sauce", "1 cup mixed vegetables",
               "2 tbsp oil" >>, 25, "mock_database"),
     Recipe("mock_2", "Pasta with Tomato Sauce",
            << "400g pasta", "3 tomatoes", "3 cloves garlic", "3 tbsp olive oil" >>,
            20, "mock_database"),
     Recipe("mock_3", "Vegetable Rice Bowl",
            << "2 cups rice", "1 cup mixed vegetables", "2 tbsp olive oil", "1 tsp salt" >>,
            30, "mock_database") >>

\* get_mock_recipes that returns every mock recipe
get_mock_recipes_unfiltered(ingredients) == mock_recipes

\* MCPServer.get_mock_recipes, lines 83-95
get_mock_recipes(ingredients) ==
  SelectSeq(mock_recipes,
            LAMBDA recipe :
              \E q \in 1..Len(ingredients), r \in 1..Len(recipe.ingredients) :
                Contains(Lower(ingredients[q]), Lower(recipe.ingredients[r])))

\* line 104: search_themealdb_api asks for the first two ingredients
MealDbIngredients == 2

\* line 116: and takes three meals of each
MealsPerIngredient == 3

\* line 187: search_edamam_api asks for five hits
EdamamHits == 5

\* line 258: search_recipe_apis returns this many recipes at most
ResultLimit == 8

\* the n-th recipe search_themealdb_api returns (lines 141-152)
MealDbRecipe(n) ==
  Recipe("mealdb_" \o NatToStr(n), "Meal " \o NatToStr(n), << "1 cup rice" >>, 45, "themealdb")

\* the n-th recipe search_edamam_api returns (lines 202-212)
EdamamRecipe(n) ==
  Recipe("edamam_" \o NatToStr(n), "Dish " \o NatToStr(n), << "2 tomatoes" >>, 30, "edamam")

\* What the world does to one call of search_recipe_apis: whether
\* create_session succeeds, the recipes search_themealdb_api returns, whether
\* the Edamam credentials are set and the recipes search_edamam_api then
\* returns, and where in the try block an exception is raised ("none",
\* "themealdb": at the first search, "edamam": at the second).
World(session_ok, mealdb, credentials, edamam, raises) ==
  [ session_ok |-> session_ok, mealdb |-> mealdb, credentials |-> credentials,
    edamam |-> edamam, raises |-> raises ]

\* MCPServer.search_recipe_apis, lines 223-258.  ingredients is a list; when
\* its elements are not strings (strings = FALSE) both searches swallow the
\* error and return [], and get_mock_recipes raises at line 249 and again in
\* the handler at line 256.
search_recipe_apis(ingredients, strings, world) ==
  LET from_mealdb == IF strings THEN world.mealdb ELSE << >>
      from_edamam == IF world.credentials /\ strings THEN world.edamam ELSE << >>
      from_apis == from_mealdb \o from_edamam
  IN IF ~world.session_ok THEN Raised("cannot create session")
     ELSE IF ~strings THEN Raised("'int' object has no attribute 'lower'")
     ELSE IF world.raises # "none" THEN Returned(Take(get_mock_recipes(ingredients), ResultLimit))
     ELSE IF Len(from_apis) = 0
     THEN Returned(Take(get_mock_recipes(ingredients), ResultLimit))
     ELSE Returned(Take(from_apis, ResultLimit))

\* MCPServer.get_nutrition_info, lines 260-305: without the USDA key an error
\* dict, else the data, or an error dict when a request fails
nutrition_info(ingredients, has_key, session_ok, api_ok) ==
  IF ~has_key THEN Returned("USDA API key not available")
  ELSE IF ~session_ok THEN Raised("cannot create session")
  ELSE IF ~api_ok THEN Returned("error")
  ELSE Returned("nutrition data")

\* a request body: RecipeSearchRequest / WebSearchRequest (lines 26-32).
\* ingredients is None when params has no such key.
Request(endpoint, method, ingredients, strings) ==
  [ endpoint |-> endpoint, method |-> method, ingredients |-> ingredients,
    strings |-> strings ]

\* what the client receives
Response(status, detail, body) == [ status |-> status, detail |-> detail, body |-> body ]

\* HTTPException(status_code, detail) raised
HttpError(status, detail) == [ raised |-> TRUE, http |-> TRUE, status |-> status, detail |-> detail ]

\* str(e) of an HTTPException: Starlette gave it the form "400: detail" only
\* in later releases; before, an exception built from keywords has no text
StrOfHttpError(style, e) ==
  IF style = "status_and_detail" THEN NatToStr(e.status) \o ": " \o e.detail ELSE ""

\* the try body of a handler (lines 327-337, 346-357, 366-376): the value it
\* returns or the exception it raises.  outcome is that of the search the
\* handler makes.
HandlerBody(own_method, req, outcome) ==
  IF req.method = own_method
  THEN IF Len(ListOr(req.ingredients)) = 0
       THEN HttpError(400, "Ingredients are required")
       ELSE IF outcome.raised
       THEN [ raised |-> TRUE, http |-> FALSE, status |-> 0, detail |-> outcome.exc ]
       ELSE [ raised |-> FALSE, http |-> FALSE, status |-> 200, detail |-> "" ]
  ELSE HttpError(400, "Invalid method")

\* The handler as a whole: `except Exception as e` (lines 339-340, 359-360,
\* 378-379) catches whatever the body raised, the HTTPException of the body
\* included, and raises HTTPException(500, str(e)).
HandlerAnswer(own_method, req, outcome, style) ==
  LET body == HandlerBody(own_method, req, outcome)
  IN IF ~body.raised THEN Response(200, "", outcome.value)
     ELSE IF body.http THEN Response(500, StrOfHttpError(style, body), None)
     ELSE Response(500, body.detail, None)

\* whether the handler reaches its search call
CallsSearch(own_method, req) ==
  req.method = own_method /\ Len(ListOr(req.ingredients)) > 0

\* the call of search_recipe_apis as the state records it
SearchCall(ingredients, world, outcome) ==
  [ ingredients |-> ingredients, world |-> world, outcome |-> outcome ]

\* the ingredients of params: absent, empty, or a list of names
ServerIngredients ==
  { None, Some(<< >>), Some(<< "rice" >>), Some(<< "Chicken", "tomatoes" >>),
    Some(<< "RICE", "saffron" >>), Some(<< "saffron" >>), Some(<< "" >>) }

\* the method names of the three endpoints
Methods == { "search_recipes", "web_search_recipes", "get_nutrition" }

\* requests to an endpoint; the last one carries numbers for ingredients
Requests(endpoint, own_method) ==
  { Request(endpoint, m, i, TRUE) : m \in Methods, i \in ServerIngredients }
    \cup { Request(endpoint, own_method, Some(<< "7" >>), FALSE) }

\* n recipes of TheMealDB
MealDbRecipes(n) == [i \in 1..n |-> MealDbRecipe(i)]

\* n recipes of Edamam
EdamamRecipes(n) == [i \in 1..n |-> EdamamRecipe(i)]

\* what the world can do to a call of search_recipe_apis
Worlds ==
  { World(TRUE, MealDbRecipes(m), FALSE, << >>, "none") :
      m \in 0..(MealDbIngredients * MealsPerIngredient) }
    \cup { World(TRUE, MealDbRecipes(m), TRUE, EdamamRecipes(e), "none") :
             m \in 0..(MealDbIngredients * MealsPerIngredient), e \in 0..EdamamHits }
    \cup { World(TRUE, << >>, FALSE, << >>, "themealdb"),
           World(TRUE, MealDbRecipes(MealsPerIngredient), TRUE, << >>, "edamam"),
           World(TRUE, << >>, TRUE, << >>, "edamam"),
           World(FALSE, << >>, FALSE, << >>, "none") }

\* what the world can do to a call of get_nutrition_info: whether the USDA key
\* is set, create_session succeeds and the requests succeed
NutritionWorlds ==
  { [ has_key |-> k, session_ok |-> s, api_ok |-> a ] :
      k \in BOOLEAN, s \in BOOLEAN, a \in BOOLEAN }

\* the forms str(e) of an HTTPException takes
Styles == { "status_and_detail", "empty" }

\* what a handler leaves behind: the request, the search it made, if any,
\* and the answer, whose body is the dict {key: value}
Handled(own_method, key, req, world, outcome, style) ==
  LET answer == HandlerAnswer(own_method, req, outcome, style)
  IN [ request  |-> Some(req),
       search   |-> IF CallsSearch(own_method, req)
                    THEN Some(SearchCall(req.ingredients[1], world, outcome))
                    ELSE None,
       response |-> Some([answer EXCEPT !.body =
                            IF IsNone(@) THEN None
                            ELSE Some([ key |-> key, value |-> @[1] ])]) ]

\* POST /api/search, lines 323-340
search_recipes(req, world, style) ==
  /\ IsNone(server_request)
  /\ LET h == Handled("search_recipes", "results", req, world,
                      search_recipe_apis(ListOr(req.ingredients), req.strings, world),
                      style)
     IN /\ server_request' = h.request
        /\ api_search' = h.search
        /\ server_response' = h.response
  /\ UNCHANGED << pipeline_vars, conditions_vars, main_vars >>

\* POST /api/web-search, lines 342-360
web_search_recipes(req, world, style) ==
  /\ IsNone(server_request)
  /\ LET h == Handled("web_search_recipes", "recipes", req, world,
                      search_recipe_apis(ListOr(req.ingredients), req.strings, world),
                      style)
     IN /\ server_request' = h.request
        /\ api_search' = h.search
        /\ server_response' = h.response
  /\ UNCHANGED << pipeline_vars, conditions_vars, main_vars >>

\* POST /api/nutrition, lines 362-379
get_nutrition_info(req, world, style) ==
  /\ IsNone(server_request)
  /\ LET h == Handled("get_nutrition", "nutrition", req, world,
                      nutrition_info(ListOr(req.ingredients), world.has_key,
                                     world.session_ok, world.api_ok),
                      style)
     IN /\ server_request' = h.request
        /\ api_search' = h.search
        /\ server_response' = h.response
  /\ UNCHANGED << pipeline_vars, conditions_vars, main_vars >>

\* the answer has been sent
Respond ==
  /\ ~IsNone(server_request)
  /\ server_request' = None
  /\ api_search' = None
  /\ server_response' = None
  /\ UNCHANGED << pipeline_vars, conditions_vars, main_vars >>

NextServer ==
  \/ \E req \in Requests("/api/search", "search_recipes"), world \in Worlds,
        style \in Styles : search_recipes(req, world, style)
  \/ \E req \in Requests("/api/web-search", "web_search_recipes"), world \in Worlds,
        style \in Styles : web_search_recipes(req, world, style)
  \/ \E req \in Requests("/api/nutrition", "get_nutrition"), world \in NutritionWorlds,
        style \in Styles : get_nutrition_info(req, world, style)
  \/ Respond

SpecServer == Init /\ [][NextServer]_vars

-----------------------------------------------------------------------------
(* main.py: the command-line main                                          *)

\* the namespace parse_args returns (lines 354-360)
Args(ingest, interactive, ingredients, conditions) ==
  [ ingest |-> ingest, interactive |-> interactive, ingredients |-> ingredients,
    conditions |-> conditions ]

\* the truth value of an optional string option: None and "" are false
Given(option) == ~IsNone(option) /\ option[1] # ""

\* command lines
ArgsValues ==
  { Args(ingest, interactive, ingredients, conditions) :
      ingest \in { None, Some(""), Some("data/recipes.json") },
      interactive \in BOOLEAN,
      ingredients \in { None, Some(""), Some("chicken,rice,onion") },
      conditions \in { None, Some("serves 4 veg under 30 mins") } }

\* interactive mode generates at most this many recipes
MaxRounds == 2

\* lines 363-367: the generator is built, or main reports the failure and
\* returns
MainStart(a, initialized) ==
  /\ main_pc = "start"
  /\ main_args' = Some(a)
  /\ IF ~initialized
     THEN /\ main_events' = << "init_failed" >>
          /\ main_pc' = "exit"
     ELSE /\ main_events' = << >>
          /\ main_pc' = IF Given(a.ingest) THEN "ingest" ELSE "dispatch"
  /\ UNCHANGED << pipeline_vars, conditions_vars, server_vars >>

\* lines 371-373: ingest_data is called
IngestBegin ==
  /\ main_pc = "ingest"
  /\ main_events' = Append(main_events, "ingest_started")
  /\ main_pc' = "ingesting"
  /\ UNCHANGED main_args
  /\ UNCHANGED << pipeline_vars, conditions_vars, server_vars >>

\* RecipeGenerator.ingest_data, lines 19-33: False when the file is missing,
\* else what ingest_recipes returns
ingest_data(file_exists, ingested) == file_exists /\ ingested

\* IngestNext that goes on after a failed ingestion
IngestNext_ignores_failure(success, a) ==
  IF ~a.interactive /\ ~Given(a.ingredients) THEN "exit" ELSE "dispatch"

\* lines 374-381: where main goes when ingest_data has returned
IngestNext(success, a) ==
  IF ~success THEN "exit"
  ELSE IF ~a.interactive /\ ~Given(a.ingredients) THEN "exit"
  ELSE "dispatch"

\* lines 373-381: ingest_data returns, or is interrupted (lines 420-421)
IngestEnd(file_exists, ingested, interrupted) ==
  /\ main_pc = "ingesting"
  /\ IF interrupted
     THEN /\ main_events' = Append(main_events, "cancelled")
          /\ main_pc' = "exit"
     ELSE /\ main_events' = Append(main_events,
                                   IF ingest_data(file_exists, ingested)
                                   THEN "ingest_completed" ELSE "ingest_failed")
          /\ main_pc' = IngestNext(ingest_data(file_exists, ingested), main_args[1])
  /\ UNCHANGED main_args
  /\ UNCHANGED << pipeline_vars, conditions_vars, server_vars >>

\* lines 384-387: direct generation; an exception of search_recipes ends main
\* at lines 422-424
GenerateDirect(raised) ==
  /\ main_pc = "dispatch"
  /\ Given(main_args[1].ingredients)
  /\ main_events' = IF raised THEN main_events \o << "generate", "error" >>
                    ELSE Append(main_events, "generate")
  /\ main_pc' = "exit"
  /\ UNCHANGED main_args
  /\ UNCHANGED << pipeline_vars, conditions_vars, server_vars >>

\* lines 390-391: interactive mode is entered
EnterInteractive ==
  /\ main_pc = "dispatch"
  /\ ~Given(main_args[1].ingredients)
  /\ main_args[1].interactive
  /\ main_events' = Append(main_events, "interactive")
  /\ main_pc' = "interactive"
  /\ UNCHANGED main_args
  /\ UNCHANGED << pipeline_vars, conditions_vars, server_vars >>

\* the recipes interactive mode has generated so far
Rounds == Len(SelectSeq(main_events, LAMBDA ev : ev = "interactive_generate"))

\* RecipeGenerator.interactive_mode, lines 310-351, one pass of the loop:
\* "exit", "quit" or "q" and Ctrl-C leave it, an input without ingredients
\* asks again, any other input generates a recipe
InteractiveRound(line, interrupted) ==
  /\ main_pc = "interactive"
  /\ IF interrupted \/ Lower(Strip(line)) \in { "exit", "quit", "q" }
     THEN /\ main_pc' = "exit"
          /\ main_events' = Append(main_events, "interactive_left")
     ELSE IF Strip(line) = "" \/ Strip(line) = ","
     THEN /\ main_pc' = "interactive"
          /\ main_events' = main_events
     ELSE /\ Rounds < MaxRounds
          /\ main_pc' = "interactive"
          /\ main_events' = Append(main_events, "interactive_generate")
  /\ UNCHANGED main_args
  /\ UNCHANGED << pipeline_vars, conditions_vars, server_vars >>

\* lines 395-418: with no option given, the usage is shown
ShowHelp ==
  /\ main_pc = "dispatch"
  /\ ~Given(main_args[1].ingredients)
  /\ ~main_args[1].interactive
  /\ main_events' = IF ~Given(main_args[1].ingest) THEN Append(main_events, "help")
                    ELSE main_events
  /\ main_pc' = "exit"
  /\ UNCHANGED main_args
  /\ UNCHANGED << pipeline_vars, conditions_vars, server_vars >>

\* what the user types at the "Ingredients:" prompt
InteractiveLines == { "exit", "Quit", "q", "", " , ", "rice, egg" }

NextMain ==
  \/ \E a \in ArgsValues, initialized \in BOOLEAN : MainStart(a, initialized)
  \/ IngestBegin
  \/ \E file_exists \in BOOLEAN, ingested \in BOOLEAN, interrupted \in BOOLEAN :
       IngestEnd(file_exists, ingested, interrupted)
  \/ \E raised \in BOOLEAN : GenerateDirect(raised)
  \/ EnterInteractive
  \/ \E line \in InteractiveLines, interrupted \in BOOLEAN :
       InteractiveRound(line, interrupted)
  \/ ShowHelp

SpecMain == Init /\ [][NextMain]_vars

-----------------------------------------------------------------------------
(* Properties                                                              *)

\* process_query has returned a dict
HasResult == pc = "done" /\ ~IsNone(result) /\ ~result[1].raised

\* generate_recipe called the completion service and returned a recipe
Generated == pc = "done" /\ ~IsNone(completion) /\ ~IsNone(gen) /\ ~gen[1].raised

\* the completion's text parsed as a JSON object
ParsedAsObject ==
  ~IsNone(completion) /\ completion[1].kind = "text" /\ ParsedJson(completion[1]) = "object"

\* C1: whenever the model's output parses as a JSON object, the recipe that
\* generate_recipe returns has the requested servings (query.servings or 1),
\* the cooking time "<realistic cooking time> minutes" computed from the
\* query and the requested difficulty (or "medium"), whatever the model wrote
C1_ConstraintsEnforced ==
  (Generated /\ ParsedAsObject) =>
    /\ gen[1].value[1].servings = IntOr(query[1].servings, 1)
    /\ gen[1].value[1].cooking_time =
         MinutesText(realistic_cooking_time(max_minutes(query[1])))
    /\ gen[1].value[1].difficulty = StrOr(query[1].difficulty_level, "medium")

\* the model wrote 12 servings, "3 hours" and "expert", and a recipe came back
C1_Witness ==
  /\ Generated
  /\ ParsedAsObject
  /\ completion[1].obj.servings = Some(12)
  /\ completion[1].obj.cooking_time = Some("3 hours")
  /\ gen[1].value[1].servings = MaxServings

ResultKeys ==
  { "recipe", "confidence_score", "sources_used", "chunks_retrieved", "web_recipes_found" }

\* C2: whatever the external services do (succeed, raise, return unusable
\* output), process_query returns a dict with the five keys recipe,
\* confidence_score, sources_used, chunks_retrieved and web_recipes_found and
\* passes no exception to its caller
C2_AlwaysReturnsResult ==
  pc = "done" =>
    /\ ~IsNone(result)
    /\ ~result[1].raised
    /\ DOMAIN result[1].value[1] = ResultKeys

\* a service failed inside generate_recipe and process_query answered with
\* its "Processing Error" dict
C2_Witness ==
  /\ HasResult
  /\ ~IsNone(gen)
  /\ gen[1].raised
  /\ result[1].value[1].recipe.recipe_title = "Processing Error"
  /\ DOMAIN result[1].value[1] = ResultKeys

\* C3: when the completion call raises (at least one valid ingredient being
\* left after dietary filtering), generate_recipe returns the recipe titled
\* "Error Generating Recipe" with the query's ingredients and the note "An
\* error occurred during recipe generation", and does not raise
C3_ErrorRecipeReturned ==
  (pc = "done" /\ ~IsNone(completion) /\ completion[1].kind = "raise") =>
    /\ ~IsNone(gen)
    /\ ~gen[1].raised
    /\ gen[1].value[1].recipe_title = "Error Generating Recipe"
    /\ gen[1].value[1].ingredients = query[1].ingredients
    /\ gen[1].value[1].additional_notes = "An error occurred during recipe generation"

\* the user gave a cooking time that holds a number
HasTimeLimit ==
  /\ ~IsNone(query)
  /\ ~IsNone(query[1].cooking_time)
  /\ FirstNumber(query[1].cooking_time[1]) # ""

\* the limit in minutes the user gave
TimeLimit == parse_cooking_time_minutes(query[1].cooking_time[1])

\* the number of minutes the returned recipe's cooking_time states
RecipeMinutes == StrToNat(FirstNumber(gen[1].value[1].cooking_time), 0)

\* C4 as stated: for every limit of N >= 1 minutes the generated recipe's
\* cooking_time is at most N minutes
C4_WithinLimit ==
  (Generated /\ HasTimeLimit /\ TimeLimit >= 1) => RecipeMinutes <= TimeLimit

\* C4 as amended: for every limit of N >= 10 minutes the generated recipe's
\* cooking_time is at most N minutes; for a limit of 1 to 9 minutes it is
\* 10 minutes, the minimum the code allows
C4_WithinLimitFromTen ==
  (Generated /\ HasTimeLimit /\ TimeLimit >= 1) =>
    IF TimeLimit >= 10 THEN RecipeMinutes <= TimeLimit ELSE RecipeMinutes = 10

\* an hour was asked for and the recipe takes 55 minutes
C4_Witness ==
  /\ Generated
  /\ HasTimeLimit
  /\ TimeLimit = 60
  /\ RecipeMinutes = 55

\* C5: on every path the servings of the returned recipe are at least 1: the
\* query's servings when that is >= 1, and 1 when it is absent, 0 or negative
C5_ServingsAtLeastOne ==
  HasResult =>
    /\ result[1].value[1].recipe.servings >= 1
    /\ result[1].value[1].recipe.servings =
         (IF IsNone(arg[1].servings) THEN 1
          ELSE IF arg[1].servings[1] >= 1 THEN arg[1].servings[1]
          ELSE 1)

\* a query asking for -1 servings was answered with 1 serving
C5_Witness ==
  /\ HasResult
  /\ arg[1].servings = Some(-1)
  /\ result[1].value[1].recipe.servings = 1

\* the non-vegetarian names, and with them the vegan-restricted names
NonVegNames == Src_non_vegetarian_ingredients

VeganForbiddenNames == Src_non_vegetarian_ingredients \cup Src_vegan_restricted

\* no ingredient of the list holds one of the names
FreeOf(names, ingredients) ==
  \A i \in 1..Len(ingredients) :
    \A name \in names :
      ~Contains(name, ingredients[i]) /\ ~Contains(name, Lower(ingredients[i]))

\* the list is acceptable under the restrictions (compared in lower case)
RespectsDiet(dietary_restrictions, ingredients) ==
  LET Has(r) == \E i \in 1..Len(dietary_restrictions) : Lower(dietary_restrictions[i]) = r
  IN /\ (Has("vegetarian") \/ Has("veg")) => FreeOf(NonVegNames, ingredients)
     /\ Has("vegan") => FreeOf(VeganForbiddenNames, ingredients)

\* C6: under "vegetarian" (or "veg") no ingredient that
\* filter_ingredients_by_diet returns holds the name of a non-vegetarian
\* ingredient, under "vegan" none holds the name of a non-vegetarian or
\* vegan-restricted ingredient, and so the ingredient list written into the
\* prompt holds none either.  The filter is applied to the valid ingredients
\* both with the restrictions as the caller wrote them and as normalised.
C6_DietRespected ==
  ~IsNone(query) =>
    /\ RespectsDiet(ListOr(arg[1].dietary_restrictions),
                    filter_ingredients_by_diet(Self, valid_ingredients,
                                               ListOr(arg[1].dietary_restrictions)))
    /\ RespectsDiet(ListOr(query[1].dietary_restrictions),
                    filter_ingredients_by_diet(Self, valid_ingredients,
                                               ListOr(query[1].dietary_restrictions)))
    /\ ~IsNone(prompt) =>
         RespectsDiet(ListOr(query[1].dietary_restrictions), prompt[1].ingredients)

\* a vegan query listing honey glazed carrots, an unknown item and lentils
\* reached the completion service with lentils only
C6_Witness ==
  /\ pc = "done"
  /\ ~IsNone(prompt)
  /\ query[1].dietary_restrictions = Some(<< "vegan" >>)
  /\ valid_ingredients = << "honey glazed carrots", "lentils" >>
  /\ prompt[1].ingredients = << "lentils" >>

\* C7: when no ingredient of the query passes validate_ingredients,
\* process_query returns the "Invalid Ingredients" recipe with confidence
\* 0.0, no sources, 0 chunks and 0 web recipes, and calls no external
\* service: no embedding, vector search, health check, web search or
\* completion
C7_InvalidIngredientsNoCalls ==
  (pc = "done" /\ Len(validate_ingredients(Src_self, arg[1].ingredients)) = 0) =>
    /\ HasResult
    /\ result[1].value[1].recipe.recipe_title = "Invalid Ingredients"
    /\ result[1].value[1].confidence_score.num = 0
    /\ result[1].value[1].sources_used = {}
    /\ result[1].value[1].chunks_retrieved = 0
    /\ result[1].value[1].web_recipes_found = 0
    /\ calls = << >>
    /\ IsNone(healthy)
    /\ IsNone(prompt)
    /\ IsNone(completion)
    /\ IsNone(gen)

\* a query with two unknown ingredients was answered
C7_Witness ==
  /\ HasResult
  /\ arg[1].ingredients = << "xyz", "qwxz" >>
  /\ result[1].value[1].recipe.recipe_title = "Invalid Ingredients"
  /\ calls = << >>

\* the external service was called in this query
Called(service) == \E i \in 1..Len(calls) : calls[i] = service

\* C8 as stated: search_web_recipes is called only after health_check
\* returned True in the same call; and when the health check fails or the
\* web search yields nothing, process_query still calls generate_recipe and
\* returns its recipe, with web_recipes_found 0 and no "web:" source
C8_WebSearchOptional ==
  /\ Called("web_search") =>
       /\ healthy = Some(TRUE)
       /\ \E i, j \in 1..Len(calls) :
            i < j /\ calls[i] = "health_check" /\ calls[j] = "web_search"
  /\ ( /\ pc = "done"
       /\ Len(valid_ingredients) > 0
       /\ (healthy = Some(FALSE) \/ web_recipes = Some(<< >>)) ) =>
       /\ ~IsNone(gen)
       /\ ~gen[1].raised
       /\ HasResult
       /\ result[1].value[1].recipe = gen[1].value[1]
       /\ result[1].value[1].web_recipes_found = 0
       /\ \A source \in result[1].value[1].sources_used : ~StartsWith(source, "web:")

\* the place of each external call in the flow of one query
CallRank(service) ==
  CASE service = "embedding" -> 1
    [] service = "local_embedding" -> 2
    [] service = "vector_search" -> 3
    [] service = "health_check" -> 4
    [] service = "web_search" -> 5
    [] service = "completion" -> 6

\* C9: one call of process_query is one linear flow: validation, then chunk
\* retrieval, then the health check and (if healthy) the web search, then
\* generation; each external service is called at most once per query and
\* nothing is called again after a failure
C9_LinearFlow ==
  /\ \A i, j \in 1..Len(calls) : i < j => CallRank(calls[i]) < CallRank(calls[j])
  /\ Len(calls) > 0 => Len(valid_ingredients) > 0
  /\ pc \in {"idle", "retrieve"} => calls = << >>
  /\ Called("local_embedding") => Called("embedding")
  /\ Called("vector_search") => Called("embedding")
  /\ Called("health_check") => Called("embedding")
  /\ Called("web_search") => Called("health_check") /\ healthy = Some(TRUE)
  /\ Called("completion") => Called("health_check")
  /\ pc = "health" => Called("embedding") /\ ~Called("health_check")
  /\ pc \in {"web", "generate"} => Called("health_check") /\ ~Called("completion")
  /\ pc = "web" => ~Called("web_search")

\* a query in which every service was called, the hosted embedding having
\* failed over to the local model
C9_Witness ==
  /\ pc = "done"
  /\ calls = << "embedding", "local_embedding", "vector_search", "health_check",
                "web_search", "completion" >>

\* the query as process_query normalises it, from the caller's argument
NormalizedArg ==
  [arg[1] EXCEPT !.servings = NormalizeServings(arg[1].servings),
                 !.dietary_restrictions =
                    NormalizeDietaryRestrictions(arg[1].dietary_restrictions)]

\* the result process_query gives for the caller's query and the services'
\* answers when the tables are those of a freshly constructed pipeline
FreshResult ==
  LET valid == validate_ingredients(Src_self, NormalizedArg.ingredients)
  IN IF Len(valid) = 0 THEN Returned(InvalidIngredientsResult(NormalizedArg))
     ELSE FinishQuery(NormalizedArg, valid, retrieved_chunks, web_recipes,
                      generate_recipe(Src_self, NormalizedArg, retrieved_chunks,
                                      ListOr(web_recipes),
                                      OptGet(completion,
                                             Completion("raise", "none", TRUE, "invalid", ObjEmpty))))

\* C10: process_query and generate_recipe leave the pipeline's own state
\* alone: after any sequence of queries the five tables equal their values
\* after construction, so a query's result is the one a fresh pipeline gives
\* for that query and those answers of the services
C10_TablesUnchanged ==
  /\ Self = Src_self
  /\ pc = "done" => result = Some(FreshResult)

\* a query with an ingredient that is in no table was answered and the
\* tables are as constructed
C10_Witness ==
  /\ HasResult
  /\ ~IsNone(gen)
  /\ valid_ingredients = << "chicken breast", "rice" >>
  /\ "chicken breast" \notin common_ingredients
  /\ common_ingredients = Src_common_ingredients

\* parse_conditions has run on the conditions of this call
Parsed == cli_stage \in { "parsed", "queried", "read" } /\ ~IsNone(parsed_conditions)

\* the text of the conditions, "" when there is none
ConditionsText == StrOr(cli_conditions, "")

\* the words of a text: its maximal runs of characters other than white space
WordsOf(text) ==
  LET inside(i, j) == \A k \in i..j : ~IsSpace(CharAt(text, k))
      starts(i) == i = 1 \/ IsSpace(CharAt(text, i - 1))
      ends(j) == j = Len(text) \/ IsSpace(CharAt(text, j + 1))
  IN { SubSeq(text, p[1], p[2]) :
         p \in { q \in (1..Len(text)) \X (1..Len(text)) :
                   q[1] <= q[2] /\ starts(q[1]) /\ ends(q[2]) /\ inside(q[1], q[2]) } }

\* every keyword of a keyword table
KeywordsOf(mapping) ==
  UNION { ToSet(mapping[i].keywords) : i \in 1..Len(mapping) }

\* w is a word of the text and the only thing in it that speaks of a diet:
\* no other word holds a diet keyword, and no diet keyword of two words occurs
OnlyDietWord(text, w) ==
  /\ w \in WordsOf(Lower(text))
  /\ \A v \in WordsOf(Lower(text)) \ { w } :
       \A k \in KeywordsOf(diet_mapping) : ~Contains(k, v)
  /\ \A k \in KeywordsOf(diet_mapping) : Contains(" ", k) => ~Contains(k, Lower(text))

\* C11: for conditions whose only diet word is "veg" or "vegetarian",
\* "non-veg", or "vegan", parse_conditions returns dietary_restrictions
\* ["vegetarian"], ["non-vegetarian"], or ["vegan"] respectively
C11_DocumentedDietWords ==
  Parsed =>
    /\ (OnlyDietWord(ConditionsText, "veg") \/ OnlyDietWord(ConditionsText, "vegetarian"))
         => parsed_conditions[1].dietary_restrictions = << "vegetarian" >>
    /\ OnlyDietWord(ConditionsText, "non-veg")
         => parsed_conditions[1].dietary_restrictions = << "non-vegetarian" >>
    /\ OnlyDietWord(ConditionsText, "vegan")
         => parsed_conditions[1].dietary_restrictions = << "vegan" >>

\* the text holds no serving, time, diet, difficulty or flavor expression: no
\* pattern of parse_conditions is found in it and none of its keywords occurs
NoExpression(text) ==
  LET plain == Strip(Lower(text))
  IN /\ FirstMatch(serving_patterns, plain) = 0
     /\ FirstMatch(time_patterns, plain) = 0
     /\ FirstMatch(hour_patterns, plain) = 0
     /\ \A k \in KeywordsOf(diet_mapping) \cup KeywordsOf(flavor_keywords) : ~Contains(k, plain)
     /\ \A k \in { "easy", "simple", "beginner", "hard", "difficult", "complex", "advanced",
                   "medium", "moderate", "intermediate" } : ~Contains(k, plain)

\* C12: parse_conditions returns servings 1, cooking_time None,
\* dietary_restrictions [], difficulty_level "medium" and flavor_profile ""
\* when conditions is None or empty, and also for every non-empty conditions
\* that holds no serving, time, diet, difficulty or flavor expression
C12_Defaults ==
  (Parsed /\ (IsNone(cli_conditions) \/ NoExpression(ConditionsText))) =>
    /\ parsed_conditions[1].servings = 1
    /\ parsed_conditions[1].cooking_time = None
    /\ parsed_conditions[1].dietary_restrictions = << >>
    /\ parsed_conditions[1].difficulty_level = "medium"
    /\ parsed_conditions[1].flavor_profile = ""

\* "quick dinner", which holds no expression, was parsed to the defaults
C12_Witness ==
  /\ Parsed
  /\ cli_conditions = Some("quick dinner")
  /\ NoExpression("quick dinner")
  /\ parsed_conditions[1] = Conditions(1, None, << >>, "medium", "")

\* C15: for every N, "under N minutes", "less than N minutes" and
\* "within N minutes" each yield the cooking_time "under N minutes", and
\* "N minutes" and "in N minutes" yield "N minutes"
C15_BoundWordsAlike ==
  Parsed =>
    \A n \in 0..MaxConditionTime :
      LET N == NatToStr(n)
      IN /\ cli_conditions \in { Some("under " \o N \o " minutes"),
                                 Some("less than " \o N \o " minutes"),
                                 Some("within " \o N \o " minutes") }
              => parsed_conditions[1].cooking_time = Some("under " \o N \o " minutes")
         /\ cli_conditions \in { Some(N \o " minutes"), Some("in " \o N \o " minutes") }
              => parsed_conditions[1].cooking_time = Some(N \o " minutes")

\* a handler of the recipe server has answered
Answered == ~IsNone(server_request) /\ ~IsNone(server_response)

\* the method name an endpoint expects
OwnMethod(endpoint) ==
  CASE endpoint = "/api/search" -> "search_recipes"
    [] endpoint = "/api/web-search" -> "web_search_recipes"
    [] endpoint = "/api/nutrition" -> "get_nutrition"

\* the search the handler made raised
SearchFailed == ~IsNone(api_search) /\ api_search[1].outcome.raised

\* C13: each POST endpoint answers a request without ingredients with status
\* 400 and detail "Ingredients are required", a request with another method
\* name with status 400 and detail "Invalid method", and answers 500 only
\* when its search failed
C13_BadRequestsGet400 ==
  Answered =>
    LET req == server_request[1]
        resp == server_response[1]
    IN /\ (req.method = OwnMethod(req.endpoint) /\ Len(ListOr(req.ingredients)) = 0)
            => (resp.status = 400 /\ resp.detail = "Ingredients are required")
       /\ req.method # OwnMethod(req.endpoint)
            => (resp.status = 400 /\ resp.detail = "Invalid method")
       /\ resp.status = 500 => SearchFailed

\* the positions in the log of main at which a recipe is generated or
\* interactive mode is entered
Starts ==
  { i \in 1..Len(main_events) :
      main_events[i] \in { "generate", "interactive", "interactive_generate" } }

\* the positions at which the log of main holds the event
Positions(event) == { i \in 1..Len(main_events) : main_events[i] = event }

\* C14: when --ingest is given and the ingestion fails, main generates no
\* recipe and does not enter interactive mode, whatever else is given; when
\* the ingestion succeeds, generation and interactive mode start only after
\* it has completed; and with both --ingredients (a non-empty value) and
\* --interactive only the direct generation runs
C14_IngestFirst ==
  ~IsNone(main_args) =>
    /\ Positions("ingest_failed") # {} => Starts = {}
    /\ Positions("ingest_started") # {} =>
         \A i \in Starts : \E j \in Positions("ingest_completed") : j < i
    /\ (Given(main_args[1].ingredients) /\ main_args[1].interactive) =>
         /\ Positions("interactive") = {}
         /\ Positions("interactive_generate") = {}
         /\ Cardinality(Positions("generate")) <= 1
         /\ (main_pc = "exit" /\ Positions("init_failed") = {}
               /\ Positions("ingest_failed") = {} /\ Positions("cancelled") = {})
              => Cardinality(Positions("generate")) = 1

\* main was given --ingest, --ingredients and --interactive, ingested, and
\* then generated the recipe without entering interactive mode
C14_Witness ==
  /\ ~IsNone(main_args)
  /\ Given(main_args[1].ingest)
  /\ Given(main_args[1].ingredients)
  /\ main_args[1].interactive
  /\ main_pc = "exit"
  /\ main_events = << "ingest_started", "ingest_completed", "generate" >>

\* search_recipe_apis was called and has returned
Searched ==
  /\ Answered
  /\ server_request[1].endpoint \in { "/api/search", "/api/web-search" }
  /\ ~IsNone(api_search)
  /\ ~api_search[1].outcome.raised

\* the mock recipes one of whose ingredients contains one of the names,
\* letter case aside
MocksContaining(names) ==
  SelectSeq(mock_recipes,
            LAMBDA m : \E n \in ToSet(names), i \in ToSet(m.ingredients) :
                         Contains(Lower(n), Lower(i)))

\* C16: search_recipe_apis returns at most 8 recipes; when TheMealDB or Edamam
\* returned a recipe and no exception occurred none of them is a mock recipe;
\* when both returned nothing, or an exception occurred, they are exactly the
\* mock recipes with an ingredient that contains one of the query ingredients
C16_MockOnlyAsFallback ==
  Searched =>
    LET world == api_search[1].world
        recipes == api_search[1].outcome.value[1]
        found == Len(world.mealdb) > 0 \/ Len(world.edamam) > 0
        failed == world.raises # "none"
    IN /\ Len(recipes) <= 8
       /\ (found /\ ~failed)
            => \A i \in 1..Len(recipes) : recipes[i].source # "mock_database"
       /\ (~found \/ failed) => recipes = MocksContaining(api_search[1].ingredients)

\* TheMealDB had returned recipes for "rice" when the Edamam search raised,
\* and the result is the one mock recipe with rice
C16_Witness ==
  /\ Searched
  /\ api_search[1].ingredients = << "rice" >>
  /\ Len(api_search[1].world.mealdb) > 0
  /\ api_search[1].world.raises = "edamam"
  /\ api_search[1].outcome.value = Some(<< mock_recipes[3] >>)

\* generate_recipe has read back the cooking time of the query
ReadBack == cli_stage = "read" /\ ~IsNone(read_minutes) /\ ~IsNone(cli_query)

\* C19: the cooking time parse_conditions produces is read back by
\* _parse_cooking_time_minutes as the time the user wrote: for every N >= 1,
\* "under N mins" and "N minutes" read back as N minutes and "N hours" as
\* 60*N minutes; a query without a cooking time, or with one that holds no
\* digit, reads back as 30 minutes
C19_TimeReadBack ==
  ReadBack =>
    /\ \A n \in 1..MaxConditionTime :
         /\ cli_conditions \in { Some("under " \o NatToStr(n) \o " mins"),
                                 Some(NatToStr(n) \o " minutes") }
              => read_minutes = Some(n)
         /\ cli_conditions = Some(NatToStr(n) \o " hours") => read_minutes = Some(60 * n)
    /\ (IsNone(cli_query[1].cooking_time) \/ FirstNumber(cli_query[1].cooking_time[1]) = "")
         => read_minutes = Some(30)

\* "2 hours" became the cooking time "120 minutes" and was read back as 120
C19_Witness ==
  /\ ReadBack
  /\ cli_conditions = Some("2 hours")
  /\ cli_query[1].cooking_time = Some("120 minutes")
  /\ read_minutes = Some(120)

\* the restriction the documented spellings stand for; any other spelling
\* stands for itself, lower-cased and without surrounding blanks
NormalFormOf(d) ==
  LET plain == Strip(Lower(d))
  IN CASE plain = "veg" \/ plain = "vegetarian" -> "vegetarian"
       [] plain = "non-veg" \/ plain = "non vegetarian" \/ plain = "nonvegetarian"
            \/ plain = "non_veg" -> "non-vegetarian"
       [] plain = "vegan" -> "vegan"
       [] OTHER -> plain

\* the restrictions the caller passed, [] when it passed none
GivenRestrictions == ListOr(arg[1].dietary_restrictions)

\* C17: after the normalisation step of process_query the query's
\* dietary_restrictions is a list, never None, that holds for each restriction
\* the caller gave, in order, "vegetarian" for "veg"/"vegetarian", "non-vegetarian"
\* for "non-veg"/"non vegetarian"/"nonvegetarian"/"non_veg", "vegan" for "vegan",
\* and any other value lower-cased and stripped; normalising that list again
\* returns the same list
C17_DietNormalized ==
  ~IsNone(query) =>
    /\ ~IsNone(query[1].dietary_restrictions)
    /\ Len(query[1].dietary_restrictions[1]) = Len(GivenRestrictions)
    /\ \A i \in 1..Len(GivenRestrictions) :
         query[1].dietary_restrictions[1][i] = NormalFormOf(GivenRestrictions[i])
    /\ NormalizeDietaryRestrictions(query[1].dietary_restrictions)
         = query[1].dietary_restrictions

\* a query came with the spellings "Non Vegetarian", "nonvegetarian", "non_veg"
\* and " Gluten-Free " and holds three times "non-vegetarian", then "gluten-free"
C17_Witness ==
  /\ ~IsNone(query)
  /\ GivenRestrictions = << "Non Vegetarian", "nonvegetarian", "non_veg", " Gluten-Free " >>
  /\ query[1].dietary_restrictions
       = Some(<< "non-vegetarian", "non-vegetarian", "non-vegetarian", "gluten-free" >>)

\* C18: whatever maximum cooking time was parsed from the query, the realistic
\* cooking time in the prompt generate_recipe sends, and in the recipe it
\* returns from the completion, is at least 10 minutes
C18_AtLeastTenMinutes ==
  /\ ~IsNone(prompt) =>
       /\ prompt[1].max_time >= 10
       /\ StrToNat(FirstNumber(prompt[1].cooking_time), 0) >= 10
       /\ ~StartsWith(prompt[1].cooking_time, "-")
  /\ Generated =>
       /\ RecipeMinutes >= 10
       /\ ~StartsWith(gen[1].value[1].cooking_time, "-")

\* a recipe was asked for in 0 minutes and the one returned takes 10 minutes
C18_Witness ==
  /\ Generated
  /\ query[1].cooking_time = Some("0 minutes")
  /\ max_minutes(query[1]) = 0
  /\ prompt[1].max_time = 10
  /\ RecipeMinutes = 10

====
